---- MODULE Spec2Model ----
(***************************************************************************)
(* Invoice / GRN reconciliation engine                                     *)
(* (reconciliation/document_processing/utils/invoice_recon.py).            *)
(*                                                                         *)
(* One run of ReconciliationProcessor.process_batch_async is modelled as a *)
(* cooperative scheduler: the batch loop ("main") and one coroutine per    *)
(* selected invoice.  A step of a coroutine is the code between two        *)
(* suspension points (await of a record-store query, of asyncio.sleep, of  *)
(* the executor future that carries llm.invoke, of Semaphore.acquire).     *)
(* Amounts are integers (smallest currency unit); a percentage is kept as  *)
(* the exact fraction num/den.                                             *)
(***************************************************************************)
EXTENDS Integers, Sequences, FiniteSets, TLC

\* ------------------------------------------------------------------ bounds
MaxBatchSize == 2          \* batch_size is drawn from 1..MaxBatchSize
MaxMaxConcurrent == 2      \* max_concurrent is drawn from 1..MaxMaxConcurrent
MaxRetryDelay == 2         \* a throttling error suggests a delay in 1..MaxRetryDelay
MaxIdList == 1             \* an invoice_ids list names at most MaxIdList invoices
MaxStoreRows == 2          \* a GRN store of a direct matcher call has 0..MaxStoreRows rows
MaxGrnLines == 2           \* a direct classifier call gets 0..MaxGrnLines GRN lines
MaxDataRows == 2           \* a parsed table has 0..MaxDataRows rows after its header
MaxProseLines == 2         \* a parsed response has 0..MaxProseLines lines after its table
MaxTextLines == 4          \* a response given line by line has 0..MaxTextLines lines
MaxRuns == 2               \* run_async_reconciliation is called up to MaxRuns times in a row

\* ------------------------------------------------------- program constants
max_retries == 3           \* _invoke_llm_with_retry_and_delay
DefaultDelay == 1          \* delay_seconds: float = 1.0
LlmGrnCap == 20            \* len(grn_items) <= 20
PerfectPct == 2            \* variance_pct <= 2
PartialPct == 10          \* variance_pct <= 10
SummaryLimit == 200        \* summary[:200]
MinDelay == 0              \* delay_seconds < 0
MaxDelay == 10             \* delay_seconds > 10
MinConcurrent == 1         \* max_concurrent < 1
MaxConcurrent == 50        \* max_concurrent > 50
MinBatch == 10             \* batch_size < 10
MaxBatch == 1000           \* batch_size > 1000

\* Python None, for text fields and for numeric fields (amounts are >= 0).
None == "<None>"
NoneNum == -1

\* float('nan'): every comparison with it is False
NaN == -1000
FloatLess(a, b) == a # NaN /\ b # NaN /\ a < b
FloatGreater(a, b) == a # NaN /\ b # NaN /\ a > b

Truthy(s) == s # None /\ s # ""
OrEmpty(s) == IF Truthy(s) THEN s ELSE ""
OrZero(n) == IF n = NoneNum THEN 0 ELSE n

Min(a, b) == IF a <= b THEN a ELSE b
Abs(n) == IF n < 0 THEN -n ELSE n
Range(f) == {f[i] : i \in DOMAIN f}

RECURSIVE SumSeq(_)
SumSeq(s) == IF s = <<>> THEN 0 ELSE Head(s) + SumSeq(Tail(s))

\* ------------------------------------------------------- the record store
\* InvoiceData rows, in the order the queryset returns them.
InvoiceTable ==
    << [id |-> 1, po_number |-> "PO1", grn_number |-> "G1", invoice_number |-> "INV1",
        invoice_total_post_gst |-> 100, processing_status |-> "completed"],
       [id |-> 2, po_number |-> "PO2", grn_number |-> None, invoice_number |-> "INV2",
        invoice_total_post_gst |-> 100, processing_status |-> "completed"],
       [id |-> 3, po_number |-> None, grn_number |-> "G1", invoice_number |-> None,
        invoice_total_post_gst |-> 100, processing_status |-> "completed"],
       [id |-> 4, po_number |-> "PO4", grn_number |-> "G0", invoice_number |-> "INV4",
        invoice_total_post_gst |-> 100, processing_status |-> "completed"],
       [id |-> 5, po_number |-> "PO1", grn_number |-> "G1", invoice_number |-> "INV5",
        invoice_total_post_gst |-> 100, processing_status |-> "pending"] >>

InvoiceIds == {InvoiceTable[i].id : i \in DOMAIN InvoiceTable}

\* The ItemWiseGrn rows of a run: PO1 has an exact-tier row (G1) and a PO-only row (G2),
\* PO2 has two rows, PO4 has LlmGrnCap + 1 rows.
GrnTable ==
    << [po_no |-> "PO1", grn_no |-> "G1", total |-> 98],
       [po_no |-> "PO1", grn_no |-> "G2", total |-> 40],
       [po_no |-> "PO2", grn_no |-> "G5", total |-> 50],
       [po_no |-> "PO2", grn_no |-> "G6", total |-> 35] >>
    \o [i \in 1..(LlmGrnCap + 1) |-> [po_no |-> "PO4", grn_no |-> "G7", total |-> 5]]

\* -------------------------------------------------------------- the state
VARIABLES
    delay_seconds,   \* self.delay_seconds
    max_concurrent,  \* self.max_concurrent
    llm,             \* self.llm is not None
    invoice_ids,     \* argument of process_batch_async: [is_none, ids]
    batch_size,      \* argument of process_batch_async
    mainPc,          \* position of process_batch_async
    invoices,        \* the selected InvoiceData rows
    batch_i,         \* the loop variable i of the batch loop
    semaphore,       \* free slots of the asyncio.Semaphore of the run
    tasks,           \* one _process_single_invoice_async coroutine per invoice
    stats,           \* self.stats
    results,         \* the results list
    records,         \* InvoiceGrnReconciliation rows, in creation order
    ret,             \* what process_batch_async returned
    item_wise_grn,   \* ItemWiseGrn rows, in the order a queryset returns them
    call             \* a direct call of one of the processor's helper methods

params == <<delay_seconds, max_concurrent, llm, invoice_ids, batch_size>>
vars == <<delay_seconds, max_concurrent, llm, invoice_ids, batch_size, mainPc,
          invoices, batch_i, semaphore, tasks, stats, results, records, ret,
          item_wise_grn, call>>

\* ------------------------------------------------------ Candidate Matcher
\* ItemWiseGrn.objects.filter(po_no=..., grn_no=...)
GrnFilterPoGrn(po, grn) ==
    SelectSeq(item_wise_grn, LAMBDA r : r.po_no = po /\ r.grn_no = grn)

\* (mutant) with no row of the PO number the rows of any PO number are taken
GrnFilterPoOrAny(po) ==
    IF \E i \in DOMAIN item_wise_grn : item_wise_grn[i].po_no = po
    THEN SelectSeq(item_wise_grn, LAMBDA r : r.po_no = po)
    ELSE item_wise_grn

\* ItemWiseGrn.objects.filter(po_no=...)
GrnFilterPo(po) == SelectSeq(item_wise_grn, LAMBDA r : r.po_no = po)

\* (mutant) the matcher queries the store for every invoice
MatcherQueriesAlways(invoice) == TRUE

\* whether _find_grn_matches_async awaits a query at all: "if invoice.po_number"
MatcherQueries(invoice) == Truthy(invoice.po_number)

\* (mutant) the PO-only tier is added to the rows of the exact tier
FindGrnMatchesBothTiers(invoice) ==
    IF Truthy(invoice.po_number) THEN GrnFilterPo(invoice.po_number) ELSE <<>>

\* _find_grn_matches_async: exact tier, then PO-only tier, then nothing.
FindGrnMatches(invoice) ==
    LET exact == IF Truthy(invoice.po_number) /\ Truthy(invoice.grn_number)
                 THEN GrnFilterPoGrn(invoice.po_number, invoice.grn_number)
                 ELSE <<>>
    IN  IF exact # <<>> THEN exact
        ELSE IF Truthy(invoice.po_number) THEN GrnFilterPo(invoice.po_number)
        ELSE <<>>

\* ---------------------------------------------------- Variance Classifier
GrnTotals(grn_items) == [i \in DOMAIN grn_items |-> OrZero(grn_items[i].total)]

\* (mutant) the thresholds are exclusive
BasicAmountComparisonExclusive(invoice, grn_items) ==
    LET total_grn_amount == SumSeq(GrnTotals(grn_items))
        invoice_total == OrZero(invoice.invoice_total_post_gst)
        num == IF invoice_total > 0
               THEN Abs((invoice_total - total_grn_amount) * 100)
               ELSE 100
        den == IF invoice_total > 0 THEN invoice_total ELSE 1
        match_status == IF num < PerfectPct * den THEN "perfect_match"
                        ELSE IF num < PartialPct * den THEN "partial_match"
                        ELSE "amount_mismatch"
    IN  [match_status |-> match_status,
         variance_num |-> num,
         variance_den |-> den,
         invoice_total |-> invoice_total,
         grn_total |-> total_grn_amount,
         grn_items_count |-> Len(grn_items)]

\* (mutant) the classifier reads what the run has stored so far
BasicAmountComparisonStateful(invoice, grn_items) ==
    LET total_grn_amount == SumSeq(GrnTotals(grn_items)) + Len(records)
        invoice_total == OrZero(invoice.invoice_total_post_gst)
        num == IF invoice_total > 0
               THEN Abs((invoice_total - total_grn_amount) * 100)
               ELSE 100
        den == IF invoice_total > 0 THEN invoice_total ELSE 1
        match_status == IF num <= PerfectPct * den THEN "perfect_match"
                        ELSE IF num <= PartialPct * den THEN "partial_match"
                        ELSE "amount_mismatch"
    IN  [match_status |-> match_status,
         variance_num |-> num,
         variance_den |-> den,
         invoice_total |-> invoice_total,
         grn_total |-> total_grn_amount,
         grn_items_count |-> Len(grn_items)]

\* _basic_amount_comparison_async.  variance_pct is the fraction
\* variance_num / variance_den; "variance_pct <= p" is num <= p * den.
BasicAmountComparison(invoice, grn_items) ==
    LET total_grn_amount == SumSeq(GrnTotals(grn_items))
        invoice_total == OrZero(invoice.invoice_total_post_gst)
        num == IF invoice_total > 0
               THEN Abs((invoice_total - total_grn_amount) * 100)
               ELSE 100
        den == IF invoice_total > 0 THEN invoice_total ELSE 1
        match_status == IF num <= PerfectPct * den THEN "perfect_match"
                        ELSE IF num <= PartialPct * den THEN "partial_match"
                        ELSE "amount_mismatch"
    IN  [match_status |-> match_status,
         variance_num |-> num,
         variance_den |-> den,
         invoice_total |-> invoice_total,
         grn_total |-> total_grn_amount,
         grn_items_count |-> Len(grn_items)]

\* ---------------------------------------------------- Discrepancy Analyzer
\* A text is a sequence of one-character strings; "\n" separates lines.
IsSpace(c) == c \in {" ", "\n"}

RECURSIVE LStrip(_)
LStrip(s) == IF s # <<>> /\ IsSpace(Head(s)) THEN LStrip(Tail(s)) ELSE s

RECURSIVE RStrip(_)
RStrip(s) ==
    IF s # <<>> /\ IsSpace(s[Len(s)]) THEN RStrip(SubSeq(s, 1, Len(s) - 1)) ELSE s

\* str.strip()
Strip(s) == RStrip(LStrip(s))

RECURSIVE Split(_, _)
\* str.split(sep)
Split(s, sep) ==
    IF \E i \in 1..Len(s) : s[i] = sep
    THEN LET i == CHOOSE i \in 1..Len(s) :
                      s[i] = sep /\ \A j \in 1..(i - 1) : s[j] # sep
         IN  <<SubSeq(s, 1, i - 1)>> \o Split(SubSeq(s, i + 1, Len(s)), sep)
    ELSE <<s>>

RECURSIVE Join(_, _)
\* sep.join(parts)
Join(parts, sep) ==
    IF parts = <<>> THEN <<>>
    ELSE IF Len(parts) = 1 THEN parts[1]
    ELSE parts[1] \o <<sep>> \o Join(Tail(parts), sep)

HasPipe(line) == \E i \in 1..Len(line) : line[i] = "|"

\* set(line.strip()) <= {"|", "-", " "}
IsSeparatorLine(line) == Range(Strip(line)) \subseteq {"|", "-", " "}

\* (mutant) a line with a pipe is a table row after the table has ended too
ParseLineReopens(st, line) ==
    IF HasPipe(line)
    THEN IF ~IsSeparatorLine(line)
         THEN [st EXCEPT !.table_lines = Append(@, line), !.in_table = TRUE]
         ELSE st
    ELSE IF st.in_table /\ ~HasPipe(line) /\ Strip(line) # <<>>
    THEN [st EXCEPT !.table_ended = TRUE, !.summary_lines = Append(@, line)]
    ELSE IF st.table_ended
    THEN [st EXCEPT !.summary_lines = Append(@, line)]
    ELSE st

\* (mutant) a line of prose ends the table before a row was seen
ParseLineKeepsPreamble(st, line) ==
    IF HasPipe(line) /\ ~st.table_ended
    THEN IF ~IsSeparatorLine(line)
         THEN [st EXCEPT !.table_lines = Append(@, line), !.in_table = TRUE]
         ELSE st
    ELSE IF ~HasPipe(line) /\ Strip(line) # <<>>
    THEN [st EXCEPT !.table_ended = TRUE, !.summary_lines = Append(@, line)]
    ELSE IF st.table_ended
    THEN [st EXCEPT !.summary_lines = Append(@, line)]
    ELSE st

\* one iteration of "for line in lines" in _parse_detailed_llm_response
ParseLine(st, line) ==
    IF HasPipe(line) /\ ~st.table_ended
    THEN IF ~IsSeparatorLine(line)
         THEN [st EXCEPT !.table_lines = Append(@, line), !.in_table = TRUE]
         ELSE st
    ELSE IF st.in_table /\ ~HasPipe(line) /\ Strip(line) # <<>>
    THEN [st EXCEPT !.table_ended = TRUE, !.summary_lines = Append(@, line)]
    ELSE IF st.table_ended
    THEN [st EXCEPT !.summary_lines = Append(@, line)]
    ELSE st

RECURSIVE ParseLines(_, _)
ParseLines(st, lines) ==
    IF lines = <<>> THEN st ELSE ParseLines(ParseLine(st, Head(lines)), Tail(lines))

\* [cell.strip() for cell in line.split('|') if cell.strip()]
RowCells(line) ==
    LET cells == Split(line, "|")
        stripped == [i \in DOMAIN cells |-> Strip(cells[i])]
    IN  SelectSeq(stripped, LAMBDA c : c # <<>>)

\* (mutant) the header row is parsed like the rows after it
DiscrepanciesWithHeader(table_lines) ==
    LET rows == [i \in 1..Len(table_lines) |-> RowCells(table_lines[i])]
        good == SelectSeq(rows, LAMBDA cols : Len(cols) >= 5)
    IN  [i \in DOMAIN good |->
            [field |-> good[i][1], grn_value |-> good[i][2],
             invoice_value |-> good[i][3], discrepancy_type |-> good[i][4],
             suggestion |-> good[i][5]]]

\* (mutant) the first row of fewer than 5 cells ends the loop over the rows
DiscrepanciesUntilShort(table_lines) ==
    LET rows == [i \in 1..(Len(table_lines) - 1) |-> RowCells(table_lines[i + 1])]
        good == SelectSeq(rows, LAMBDA cols : Len(cols) >= 5)
        kept == IF \E i \in DOMAIN rows : Len(rows[i]) < 5 THEN <<>> ELSE good
    IN  [i \in DOMAIN kept |->
            [field |-> kept[i][1], grn_value |-> kept[i][2],
             invoice_value |-> kept[i][3], discrepancy_type |-> kept[i][4],
             suggestion |-> kept[i][5]]]

\* the discrepancy entries of table_lines[1:]
Discrepancies(table_lines) ==
    LET rows == [i \in 1..(Len(table_lines) - 1) |-> RowCells(table_lines[i + 1])]
        good == SelectSeq(rows, LAMBDA cols : Len(cols) >= 5)
    IN  [i \in DOMAIN good |->
            [field |-> good[i][1], grn_value |-> good[i][2],
             invoice_value |-> good[i][3], discrepancy_type |-> good[i][4],
             suggestion |-> good[i][5]]]

\* llm_analysis = None
NoAnalysis ==
    [present |-> FALSE, success |-> FALSE, has_error |-> FALSE, discrepancies |-> <<>>,
     summary |-> <<>>, total_discrepancies |-> 0, raw_response |-> <<>>]

\* _parse_detailed_llm_response.  A response is [is_str, text]; a response
\* that is not a str makes llm_response.strip() throw inside the try block.
\* The failure dict has no total_discrepancies key (kept as 0 here).
ParseDetailedLlmResponse(llm_response) ==
    IF ~llm_response.is_str
    THEN [present |-> TRUE, success |-> FALSE, has_error |-> TRUE,
          discrepancies |-> <<>>, summary |-> <<>>, total_discrepancies |-> 0,
          raw_response |-> llm_response.text]
    ELSE LET lines == Split(Strip(llm_response.text), "\n")
             st == ParseLines([table_lines |-> <<>>, summary_lines |-> <<>>,
                               in_table |-> FALSE, table_ended |-> FALSE], lines)
             discrepancies == Discrepancies(st.table_lines)
         IN  [present |-> TRUE, success |-> TRUE, has_error |-> FALSE,
              discrepancies |-> discrepancies,
              summary |-> Strip(Join(st.summary_lines, "\n")),
              total_discrepancies |-> Len(discrepancies),
              raw_response |-> llm_response.text]

\* Responses of the inference service used in a run: a table with one
\* five-cell data row and a line of prose, a table with a header row only,
\* and a value that is not a str.
HeaderRow == <<"|", "F", "|", "G", "|", "I", "|", "T", "|", "S", "|">>
SeparatorRow == <<"|", "-", "|", "-", "|", "-", "|", "-", "|", "-", "|">>
DataRow == <<"|", "a", "|", "b", "|", "c", "|", "d", "|", "e", "|">>
Prose == <<"f", "i", "x">>

RunResponses ==
    { [is_str |-> TRUE, text |-> Join(<<HeaderRow, SeparatorRow, DataRow, Prose>>, "\n")],
      [is_str |-> TRUE, text |-> Join(<<HeaderRow, SeparatorRow>>, "\n")],
      [is_str |-> FALSE, text |-> <<>>] }

\* what _parse_detailed_llm_response makes of each of them
RunAnalyses == [r \in RunResponses |-> ParseDetailedLlmResponse(r)]

\* ------------------------------------------------------- Inference errors
\* What _invoke_llm_with_retry_and_delay reads in str(e): whether it contains
\* '429', whether it contains 'retry_delay', and what the regular expression
\* retry_delay[":\s]*([0-9.]+) finds after it: nothing ("no_match"), digits
\* and dots that float() rejects ("not_a_number"), or a number.
\* A message without '429' or without 'retry_delay' is one message per
\* combination; the throttling messages carry every delay of 1..MaxRetryDelay.
LlmErrors ==
    { e \in [has_429 : BOOLEAN, has_retry_delay : BOOLEAN,
             found : {"no_match", "not_a_number", "number"},
             retry_delay : 0..MaxRetryDelay] :
        /\ (~e.has_retry_delay => e.found = "no_match")
        /\ (~e.has_429 /\ e.has_retry_delay => e.found = "number" /\ e.retry_delay = 1)
        /\ (e.found = "number") = (e.retry_delay > 0) }

NoError == [has_429 |-> FALSE, has_retry_delay |-> FALSE, found |-> "none", retry_delay |-> 0]

\* self.stats of __init__
ZeroStats ==
    [total_processed |-> 0, perfect_matches |-> 0, partial_matches |-> 0,
     llm_matches |-> 0, no_matches |-> 0, errors |-> 0]

NotReturned ==
    [returned |-> FALSE, success |-> FALSE, has_error |-> FALSE,
     total_processed |-> 0, stats |-> ZeroStats, results |-> <<>>]

NoMatchResult ==
    [match_status |-> "none", variance_num |-> 0, variance_den |-> 1,
     invoice_total |-> 0, grn_total |-> 0, grn_items_count |-> 0]

NoResult ==
    [invoice_id |-> 0, reconciliation_id |-> 0, match_status |-> "none",
     variance_num |-> 0, variance_den |-> 1, llm_discrepancies |-> 0]

NoSleep == [ev |-> "none", secs |-> 0]

\* A coroutine object that gather has not scheduled yet.  grn_items,
\* match_result, llm_analysis, attempt and last_error (the caught e) are the
\* locals of the coroutine and of the calls it awaits; last_sleep (the latest
\* asyncio.sleep of the inference client), calls (how often llm.invoke was
\* handed to the executor), llm_exit (how the inference client ended) and
\* analysed (what _llm_field_comparison_async returned: "no" when it was not
\* called, "none", "ok" for a success dict, "parse_failed" for a failure
\* dict) observe the analyzer.
NewTask ==
    [pc |-> "new", grn_items |-> <<>>, match_result |-> NoMatchResult,
     llm_analysis |-> NoAnalysis, attempt |-> 0, last_error |-> NoError,
     last_sleep |-> NoSleep, calls |-> 0, llm_exit |-> "none", analysed |-> "no",
     result |-> NoResult]

\* the coroutine has returned: its frame and locals are gone
Returned(t, result) ==
    [NewTask EXCEPT !.pc = "done", !.result = result,
                    !.llm_exit = t.llm_exit, !.analysed = t.analysed]

\* no helper method is called directly
NoCall == [fn |-> "none"]

\* the argument lists of a run: no list, the empty list, lists of ids
IdLists == {[is_none |-> TRUE, ids |-> {}]} \cup
           {[is_none |-> FALSE, ids |-> S] :
                S \in {S \in SUBSET InvoiceIds : Cardinality(S) <= MaxIdList}}

\* nothing of a run exists
NoRun ==
    /\ invoices = <<>>
    /\ batch_i = 0
    /\ semaphore = 0
    /\ tasks = <<>>
    /\ stats = ZeroStats
    /\ results = <<>>
    /\ records = <<>>
    /\ ret = NotReturned

\* a processor whose process_batch_async has not run a step yet
NotStarted == mainPc = "select" /\ NoRun

\* ReconciliationProcessor.__init__ and the call of process_batch_async
Init ==
    /\ delay_seconds \in {0, DefaultDelay}
    /\ max_concurrent \in 1..MaxMaxConcurrent
    /\ llm \in BOOLEAN
    /\ invoice_ids \in IdLists
    /\ batch_size \in 1..MaxBatchSize
    /\ NotStarted
    /\ item_wise_grn = GrnTable
    /\ call = NoCall

\* ------------------------------------------------------------ Orchestrator
\* (mutant) with a list of ids the status of the invoices is not looked at
SelectInvoicesAnyStatus(ids) ==
    IF ~ids.is_none /\ ids.ids # {}
    THEN SelectSeq(InvoiceTable, LAMBDA r : r.id \in ids.ids)
    ELSE SelectSeq(InvoiceTable, LAMBDA r : r.processing_status = "completed")

\* (mutant) the list is used whenever one is given, the empty list too
SelectInvoicesListGiven(ids) ==
    IF ~ids.is_none
    THEN SelectSeq(InvoiceTable,
                   LAMBDA r : r.id \in ids.ids /\ r.processing_status = "completed")
    ELSE SelectSeq(InvoiceTable, LAMBDA r : r.processing_status = "completed")

\* InvoiceData.objects.filter(id__in=invoice_ids, processing_status='completed')
\* when invoice_ids is truthy, filter(processing_status='completed') otherwise
SelectInvoices(ids) ==
    IF ~ids.is_none /\ ids.ids # {}
    THEN SelectSeq(InvoiceTable,
                   LAMBDA r : r.id \in ids.ids /\ r.processing_status = "completed")
    ELSE SelectSeq(InvoiceTable, LAMBDA r : r.processing_status = "completed")

\* asyncio.Semaphore(self.max_concurrent)
NewSemaphore == max_concurrent

\* the selection query returns: total_invoices, semaphore, results = []
Select ==
    /\ mainPc = "select"
    /\ invoices' = SelectInvoices(invoice_ids)
    /\ tasks' = [k \in 1..Len(invoices') |-> NewTask]
    /\ semaphore' = NewSemaphore
    /\ batch_i' = 0
    /\ mainPc' = "loop"
    /\ UNCHANGED <<params, item_wise_grn, call, stats, results, records, ret>>

\* (mutant) the exception of the selection query leaves process_batch_async
SelectFailsPropagates ==
    /\ mainPc = "select"
    /\ mainPc' = "returned"
    /\ UNCHANGED <<params, item_wise_grn, call, invoices, batch_i, semaphore, tasks, stats,
                   results, records, ret>>

\* the selection query raises: the except branch of process_batch_async
SelectFails ==
    /\ mainPc = "select"
    /\ ret' = [returned |-> TRUE, success |-> FALSE, has_error |-> TRUE,
               total_processed |-> 0, stats |-> stats, results |-> <<>>]
    /\ mainPc' = "returned"
    /\ UNCHANGED <<params, item_wise_grn, call, invoices, batch_i, semaphore, tasks, stats, results, records>>

\* positions in invoices of batch = invoices[i:i + batch_size]
BatchOf(i) == (i + 1)..Min(i + batch_size, Len(invoices))

\* tasks = [...]; asyncio.gather(*tasks, return_exceptions=True) is awaited
StartBatch ==
    /\ mainPc = "loop"
    /\ batch_i < Len(invoices)
    /\ tasks' = [k \in DOMAIN tasks |->
                    IF k \in BatchOf(batch_i) THEN [tasks[k] EXCEPT !.pc = "waiting"]
                    ELSE tasks[k]]
    /\ mainPc' = "gather"
    /\ UNCHANGED <<params, item_wise_grn, call, invoices, batch_i, semaphore, stats, results, records, ret>>

Finished(t) == t.pc \in {"done", "failed"}

RECURSIVE HandleResultsDropsErrors(_, _, _)
\* (mutant) an exception among the batch results is logged but not counted
HandleResultsDropsErrors(st, k, last) ==
    IF k > last THEN st
    ELSE HandleResultsDropsErrors(
            IF tasks[k].pc = "failed" THEN st
            ELSE [st EXCEPT !.results = Append(@, tasks[k].result),
                            !.stats.total_processed = @ + 1],
            k + 1, last)

RECURSIVE HandleResultsAsCompleted(_, _, _)
\* (mutant) the results of a batch are taken in the order the tasks returned
HandleResultsAsCompleted(st, k, last) ==
    IF k > last THEN st
    ELSE LET returned == {j \in (batch_i + 1)..last : tasks[j].pc = "done"}
             n == k - batch_i
         IN  HandleResultsAsCompleted(
                IF n > Cardinality(returned)
                THEN [st EXCEPT !.stats.errors = @ + 1]
                ELSE LET j == CHOOSE j \in returned :
                                Cardinality({i \in returned :
                                    tasks[i].result.reconciliation_id
                                        <= tasks[j].result.reconciliation_id}) = n
                     IN  [st EXCEPT !.results = Append(@, tasks[j].result),
                                    !.stats.total_processed = @ + 1],
                k + 1, last)

RECURSIVE HandleResults(_, _, _)
\* for j, result in enumerate(batch_results): st is [stats, results]
HandleResults(st, k, last) ==
    IF k > last THEN st
    ELSE HandleResults(
            IF tasks[k].pc = "failed"
            THEN [st EXCEPT !.stats.errors = @ + 1]
            ELSE [st EXCEPT !.results = Append(@, tasks[k].result),
                            !.stats.total_processed = @ + 1],
            k + 1, last)

\* (mutant) the batch is awaited until its first task has finished
GatherReturnsFirst ==
    /\ mainPc = "gather"
    /\ \E k \in BatchOf(batch_i) : Finished(tasks[k])
    /\ LET st == HandleResults([stats |-> stats, results |-> results],
                               batch_i + 1, Min(batch_i + batch_size, Len(invoices)))
       IN  /\ stats' = st.stats
           /\ results' = st.results
    /\ batch_i' = batch_i + batch_size
    /\ mainPc' = "loop"
    /\ UNCHANGED <<params, item_wise_grn, call, invoices, semaphore, tasks, records, ret>>

\* (mutant) gather without return_exceptions: a failed task makes the await
\* raise, which the except branch of process_batch_async reports
GatherPropagates ==
    /\ mainPc = "gather"
    /\ \A k \in BatchOf(batch_i) : Finished(tasks[k])
    /\ IF \E k \in BatchOf(batch_i) : tasks[k].pc = "failed"
       THEN /\ ret' = [returned |-> TRUE, success |-> FALSE, has_error |-> TRUE,
                       total_processed |-> 0, stats |-> stats, results |-> <<>>]
            /\ mainPc' = "returned"
            /\ UNCHANGED <<stats, results, batch_i>>
       ELSE /\ LET st == HandleResults([stats |-> stats, results |-> results],
                              batch_i + 1, Min(batch_i + batch_size, Len(invoices)))
               IN  /\ stats' = st.stats
                   /\ results' = st.results
            /\ batch_i' = batch_i + batch_size
            /\ mainPc' = "loop"
            /\ ret' = ret
    /\ UNCHANGED <<params, item_wise_grn, call, invoices, semaphore, tasks, records>>

\* gather returns once every task of the batch has finished
GatherReturns ==
    /\ mainPc = "gather"
    /\ \A k \in BatchOf(batch_i) : Finished(tasks[k])
    /\ LET st == HandleResults([stats |-> stats, results |-> results],
                               batch_i + 1, Min(batch_i + batch_size, Len(invoices)))
       IN  /\ stats' = st.stats
           /\ results' = st.results
    /\ batch_i' = batch_i + batch_size
    /\ mainPc' = "loop"
    /\ UNCHANGED <<params, item_wise_grn, call, invoices, semaphore, tasks, records, ret>>

\* the loop is over: return {'success': True, ...}
Return ==
    /\ mainPc = "loop"
    /\ batch_i >= Len(invoices)
    /\ ret' = [returned |-> TRUE, success |-> TRUE, has_error |-> FALSE,
               total_processed |-> stats.total_processed, stats |-> stats,
               results |-> results]
    /\ mainPc' = "returned"
    /\ UNCHANGED <<params, item_wise_grn, call, invoices, batch_i, semaphore, tasks, stats, results, records>>

\* ------------------------------------------------------- per-invoice task
Take(seq, n) == SubSeq(seq, 1, Min(n, Len(seq)))

NoNotes == [text |-> None, count |-> 0, summary |-> <<>>]

\* (mutant) the notes are written for any analysis dict, failed or not
ReconciliationDataAnyAnalysis(invoice, match_result, llm_analysis) ==
    LET analysed == llm_analysis.present
        discrepancy_count == llm_analysis.total_discrepancies
    IN  [invoice_data |-> invoice.id,
         po_number |-> OrEmpty(invoice.po_number),
         grn_number |-> OrEmpty(invoice.grn_number),
         invoice_number |-> OrEmpty(invoice.invoice_number),
         match_status |-> match_result.match_status,
         invoice_total |-> match_result.invoice_total,
         grn_total |-> match_result.grn_total,
         variance_num |-> match_result.variance_num,
         variance_den |-> match_result.variance_den,
         total_grn_line_items |-> match_result.grn_items_count,
         is_auto_matched |-> TRUE,
         matching_method |-> "async_llm_enhanced",
         reconciliation_notes |->
            IF analysed
            THEN [text |-> "LLM Analysis", count |-> discrepancy_count,
                  summary |-> Take(llm_analysis.summary, SummaryLimit)]
            ELSE NoNotes,
         requires_review |-> analysed /\ discrepancy_count > 0]

\* (mutant) the summary goes into the notes at its full length
ReconciliationDataUntruncated(invoice, match_result, llm_analysis) ==
    LET analysed == llm_analysis.present /\ llm_analysis.success
        discrepancy_count == llm_analysis.total_discrepancies
    IN  [invoice_data |-> invoice.id,
         po_number |-> OrEmpty(invoice.po_number),
         grn_number |-> OrEmpty(invoice.grn_number),
         invoice_number |-> OrEmpty(invoice.invoice_number),
         match_status |-> match_result.match_status,
         invoice_total |-> match_result.invoice_total,
         grn_total |-> match_result.grn_total,
         variance_num |-> match_result.variance_num,
         variance_den |-> match_result.variance_den,
         total_grn_line_items |-> match_result.grn_items_count,
         is_auto_matched |-> TRUE,
         matching_method |-> "async_llm_enhanced",
         reconciliation_notes |->
            IF analysed
            THEN [text |-> "LLM Analysis", count |-> discrepancy_count,
                  summary |-> llm_analysis.summary]
            ELSE NoNotes,
         requires_review |-> analysed /\ discrepancy_count > 0]

\* reconciliation_data of _create_reconciliation_record_async; a field the
\* code does not pass is None (left to the record store)
ReconciliationData(invoice, match_result, llm_analysis) ==
    LET analysed == llm_analysis.present /\ llm_analysis.success
        discrepancy_count == llm_analysis.total_discrepancies
    IN  [invoice_data |-> invoice.id,
         po_number |-> OrEmpty(invoice.po_number),
         grn_number |-> OrEmpty(invoice.grn_number),
         invoice_number |-> OrEmpty(invoice.invoice_number),
         match_status |-> match_result.match_status,
         invoice_total |-> match_result.invoice_total,
         grn_total |-> match_result.grn_total,
         variance_num |-> match_result.variance_num,
         variance_den |-> match_result.variance_den,
         total_grn_line_items |-> match_result.grn_items_count,
         is_auto_matched |-> TRUE,
         matching_method |-> "async_llm_enhanced",
         reconciliation_notes |->
            IF analysed
            THEN [text |-> "LLM Analysis", count |-> discrepancy_count,
                  summary |-> Take(llm_analysis.summary, SummaryLimit)]
            ELSE NoNotes,
         requires_review |-> analysed /\ discrepancy_count > 0]

\* reconciliation_data of _create_no_match_record_async
NoMatchData(invoice) ==
    [invoice_data |-> invoice.id,
     po_number |-> OrEmpty(invoice.po_number),
     grn_number |-> None,
     invoice_number |-> None,
     match_status |-> "no_grn_found",
     invoice_total |-> NoneNum,
     grn_total |-> NoneNum,
     variance_num |-> NoneNum,
     variance_den |-> 1,
     total_grn_line_items |-> 0,
     is_auto_matched |-> TRUE,
     matching_method |-> None,
     reconciliation_notes |->
        [text |-> "No matching GRN records found", count |-> 0, summary |-> <<>>],
     requires_review |-> FALSE]

\* (mutant) an exception leaves the section without releasing the slot
RaiseKeepsSlot(k) ==
    /\ tasks' = [tasks EXCEPT ![k] = [NewTask EXCEPT !.pc = "failed"]]
    /\ semaphore' = semaphore

\* leaving "async with semaphore" by an exception: the slot is released and
\* the exception is what gather collects for the task
Raise(k) ==
    /\ tasks' = [tasks EXCEPT ![k] = [NewTask EXCEPT !.pc = "failed"]]
    /\ semaphore' = semaphore + 1

\* (mutant) the limiter admits a task whatever its count
CanAcquireUnbounded == TRUE

\* whether a waiting task may enter "async with semaphore"
CanAcquire == semaphore > 0

\* async with semaphore: a slot is taken, _find_grn_matches_async is awaited
Acquire(k) ==
    /\ tasks[k].pc = "waiting"
    /\ CanAcquire
    /\ semaphore' = semaphore - 1
    /\ tasks' = [tasks EXCEPT ![k].pc = "find"]
    /\ UNCHANGED <<params, item_wise_grn, call, mainPc, invoices, batch_i, stats, results, records, ret>>

\* (mutant) an empty candidate set goes on to the classifier like any other
FindReturnsAlwaysClassifies(k) ==
    /\ tasks[k].pc = "find"
    /\ stats' = stats
    /\ tasks' = [tasks EXCEPT ![k].pc = "items",
                              ![k].grn_items = FindGrnMatches(invoices[k])]
    /\ UNCHANGED <<params, item_wise_grn, call, mainPc, invoices, batch_i, semaphore, results, records, ret>>

\* the matcher returns; with no candidate no_matches is counted and the
\* no-match record is being created, otherwise the line items are fetched
FindReturns(k) ==
    /\ tasks[k].pc = "find"
    /\ LET grn_items == FindGrnMatches(invoices[k])
       IN  IF grn_items = <<>>
           THEN /\ stats' = [stats EXCEPT !.no_matches = @ + 1]
                /\ tasks' = [tasks EXCEPT ![k].pc = "create_no_match"]
           ELSE /\ stats' = stats
                /\ tasks' = [tasks EXCEPT ![k].pc = "items", ![k].grn_items = grn_items]
    /\ UNCHANGED <<params, item_wise_grn, call, mainPc, invoices, batch_i, semaphore, results, records, ret>>

\* a query of the matcher raises
FindRaises(k) ==
    /\ tasks[k].pc = "find"
    /\ MatcherQueries(invoices[k])
    /\ Raise(k)
    /\ UNCHANGED <<params, item_wise_grn, call, mainPc, invoices, batch_i, stats, results, records, ret>>

\* (mutant) the no-match result is returned without a record being created
NoMatchNotPersisted(k) ==
    /\ tasks[k].pc = "create_no_match"
    /\ tasks' = [tasks EXCEPT ![k] =
                    Returned(@,
                          [invoice_id |-> invoices[k].id,
                           reconciliation_id |-> 0,
                           match_status |-> "no_grn_found",
                           variance_num |-> 0, variance_den |-> 1,
                           llm_discrepancies |-> 0])]
    /\ semaphore' = semaphore + 1
    /\ UNCHANGED <<params, item_wise_grn, call, mainPc, invoices, batch_i, stats, results, records, ret>>

\* the no-match record is created and the task returns its result
NoMatchCreated(k) ==
    /\ tasks[k].pc = "create_no_match"
    /\ records' = Append(records, NoMatchData(invoices[k]))
    /\ tasks' = [tasks EXCEPT ![k] =
                    Returned(@,
                          [invoice_id |-> invoices[k].id,
                           reconciliation_id |-> Len(records) + 1,
                           match_status |-> "no_grn_found",
                           variance_num |-> 0, variance_den |-> 1,
                           llm_discrepancies |-> 0])]
    /\ semaphore' = semaphore + 1
    /\ UNCHANGED <<params, item_wise_grn, call, mainPc, invoices, batch_i, stats, results, ret>>

\* InvoiceGrnReconciliation.objects.create raises for the no-match record
NoMatchCreateRaises(k) ==
    /\ tasks[k].pc = "create_no_match"
    /\ Raise(k)
    /\ UNCHANGED <<params, item_wise_grn, call, mainPc, invoices, batch_i, stats, results, records, ret>>

\* _llm_field_comparison_async is over with analysis (None or a dict) and
\* _invoke_llm_with_retry_and_delay with its locals: the reconciliation
\* record is being created
Analysed(t, analysis) ==
    [t EXCEPT !.llm_analysis = analysis, !.pc = "create_record",
              !.attempt = 0, !.last_sleep = NoSleep, !.calls = 0,
              !.analysed = IF ~analysis.present THEN "none"
                           ELSE IF analysis.success THEN "ok" ELSE "parse_failed"]

\* (mutant) the analyzer lets the exception of the inference client through
AnalyzerPropagates(t, exit) == [t EXCEPT !.pc = "failed", !.llm_exit = exit]

\* "except Exception as e: ... return None" of _llm_field_comparison_async:
\* the inference client raised (exit says how) and the analysis is None
AnalyzerCatches(t, exit) == Analysed([t EXCEPT !.llm_exit = exit], NoAnalysis)

\* "if not self.llm: return None", and the analyzer not being called at all
NotAnalysed(t) == [t EXCEPT !.pc = "create_record"]

\* (mutant) only the first attempt is paced
PacingFirstAttemptOnly(attempt) == FloatGreater(delay_seconds, 0) /\ attempt = 0

\* if self.delay_seconds > 0 (attempt is the attempt about to be made)
PacingSleeps(attempt) == FloatGreater(delay_seconds, 0)

\* (mutant) every attempt hands llm.invoke to the executor twice
InvokeTwice(t) == [t EXCEPT !.pc = "llm_call", !.calls = @ + 2]

\* loop.run_in_executor(None, self.llm.invoke, prompt) is awaited
Invoke(t) == [t EXCEPT !.pc = "llm_call", !.calls = @ + 1]

\* the body of "while attempt < max_retries": the pacing sleep, or with no
\* delay the call handed to the executor
BeginAttempt(t) ==
    IF PacingSleeps(t.attempt)
    THEN [t EXCEPT !.pc = "llm_pacing",
                   !.last_sleep = [ev |-> "pace", secs |-> delay_seconds]]
    ELSE Invoke(t)

\* (mutant) the loop test is off by one
MayAttemptOnceMore(attempt) == attempt <= max_retries

\* whether the loop of _invoke_llm_with_retry_and_delay goes on
MayAttempt(attempt) == attempt < max_retries

\* (mutant) "Max retries reached" leaves the analyzer and fails the task
RetryLoopPropagates(t) ==
    IF MayAttempt(t.attempt) THEN BeginAttempt(t)
    ELSE [t EXCEPT !.pc = "failed", !.llm_exit = "max_retries"]

\* the loop test; past it "Max retries reached" is raised, which
\* _llm_field_comparison_async catches and turns into None
RetryLoop(t) ==
    IF MayAttempt(t.attempt) THEN BeginAttempt(t)
    ELSE AnalyzerCatches(t, "max_retries")

\* (mutant) the analyzer runs whatever the number of candidates
AnalyzerRunsUncapped(grn_items) == llm

\* if self.llm and len(grn_items) <= 20
AnalyzerRuns(grn_items) == llm /\ Len(grn_items) <= LlmGrnCap

\* the line items arrive: classifier, then the analyzer or the record
ItemsReturn(k) ==
    /\ tasks[k].pc = "items"
    /\ LET t == [tasks[k] EXCEPT
                    !.match_result = BasicAmountComparison(invoices[k], tasks[k].grn_items)]
       IN  tasks' = [tasks EXCEPT ![k] =
                        IF AnalyzerRuns(t.grn_items) THEN RetryLoop(t)
                        ELSE NotAnalysed(t)]
    /\ UNCHANGED <<params, item_wise_grn, call, mainPc, invoices, batch_i, semaphore, stats, results, records, ret>>

\* the line-item query raises
ItemsRaise(k) ==
    /\ tasks[k].pc = "items"
    /\ Raise(k)
    /\ UNCHANGED <<params, item_wise_grn, call, mainPc, invoices, batch_i, stats, results, records, ret>>

\* the pacing sleep is over: llm.invoke is handed to the executor
PacingDone(k) ==
    /\ tasks[k].pc = "llm_pacing"
    /\ tasks' = [tasks EXCEPT ![k] = Invoke(@)]
    /\ UNCHANGED <<params, item_wise_grn, call, mainPc, invoices, batch_i, semaphore, stats, results, records, ret>>

\* llm.invoke returns a response: it is parsed
LlmReturns(k, response) ==
    /\ tasks[k].pc = "llm_call"
    /\ tasks' = [tasks EXCEPT ![k] =
                    Analysed([@ EXCEPT !.llm_exit = "returned"], RunAnalyses[response])]
    /\ UNCHANGED <<params, item_wise_grn, call, mainPc, invoices, batch_i, semaphore, stats, results, records, ret>>

\* (mutant) the test "if match" is left out
IsThrottleUnmatched(e) == e.has_429 /\ e.has_retry_delay

\* if '429' in err_msg and 'retry_delay' in err_msg, and the pattern matches
IsThrottle(e) == e.has_429 /\ e.has_retry_delay /\ e.found # "no_match"

\* await asyncio.sleep(retry_delay)
BackoffSleep(e) == [ev |-> "backoff", secs |-> e.retry_delay]

\* the except branch of _invoke_llm_with_retry_and_delay
LlmRaises(k, e) ==
    /\ tasks[k].pc = "llm_call"
    /\ LET t == [tasks[k] EXCEPT !.last_error = e]
       IN  tasks' = [tasks EXCEPT ![k] =
                IF IsThrottle(e)
                THEN IF e.found = "number"
                     THEN [t EXCEPT !.pc = "llm_backoff",
                                    !.last_sleep = BackoffSleep(e)]
                     ELSE AnalyzerCatches(t, "conversion_error")
                ELSE AnalyzerCatches(t, "raised")]
    /\ UNCHANGED <<params, item_wise_grn, call, mainPc, invoices, batch_i, semaphore, stats, results, records, ret>>

\* the backoff sleep is over: attempt += 1; continue
BackoffDone(k) ==
    /\ tasks[k].pc = "llm_backoff"
    /\ tasks' = [tasks EXCEPT ![k] =
                    RetryLoop([@ EXCEPT !.attempt = @ + 1, !.last_error = NoError])]
    /\ UNCHANGED <<params, item_wise_grn, call, mainPc, invoices, batch_i, semaphore, stats, results, records, ret>>

\* (mutant) the increments of a task are lost when another task is inside the
\* section at the time
UpdateStatsLost(st, match_status, llm_analysis) ==
    IF semaphore + 1 < max_concurrent THEN st
    ELSE LET s1 == IF match_status = "perfect_match"
                   THEN [st EXCEPT !.perfect_matches = @ + 1]
                   ELSE IF match_status = "partial_match"
                   THEN [st EXCEPT !.partial_matches = @ + 1]
                   ELSE st
         IN  IF llm_analysis.present THEN [s1 EXCEPT !.llm_matches = @ + 1] ELSE s1

\* "Update stats" of _process_single_invoice_async
UpdateStats(st, match_status, llm_analysis) ==
    LET s1 == IF match_status = "perfect_match"
              THEN [st EXCEPT !.perfect_matches = @ + 1]
              ELSE IF match_status = "partial_match"
              THEN [st EXCEPT !.partial_matches = @ + 1]
              ELSE st
    IN  IF llm_analysis.present THEN [s1 EXCEPT !.llm_matches = @ + 1] ELSE s1

\* (mutant) the record of an invoice is written only when the store has none
\* for it (get_or_create)
RecordCreatedOnce(k) ==
    /\ tasks[k].pc = "create_record"
    /\ LET t == tasks[k]
           old == {i \in DOMAIN records : records[i].invoice_data = invoices[k].id}
       IN  /\ records' = IF old = {} THEN Append(records,
                                ReconciliationData(invoices[k], t.match_result, t.llm_analysis))
                          ELSE records
           /\ stats' = UpdateStats(stats, t.match_result.match_status, t.llm_analysis)
           /\ tasks' = [tasks EXCEPT ![k] =
                 Returned(t,
                       [invoice_id |-> invoices[k].id,
                        reconciliation_id |-> IF old = {} THEN Len(records) + 1
                                              ELSE CHOOSE i \in old : TRUE,
                        match_status |-> t.match_result.match_status,
                        variance_num |-> t.match_result.variance_num,
                        variance_den |-> t.match_result.variance_den,
                        llm_discrepancies |-> Len(t.llm_analysis.discrepancies)])]
    /\ semaphore' = semaphore + 1
    /\ UNCHANGED <<params, item_wise_grn, call, mainPc, invoices, batch_i, results, ret>>

\* the reconciliation record is created: stats, result, slot released
RecordCreated(k) ==
    /\ tasks[k].pc = "create_record"
    /\ LET t == tasks[k]
       IN  /\ records' = Append(records,
                    ReconciliationData(invoices[k], t.match_result, t.llm_analysis))
           /\ stats' = UpdateStats(stats, t.match_result.match_status, t.llm_analysis)
           /\ tasks' = [tasks EXCEPT ![k] =
                 Returned(t,
                       [invoice_id |-> invoices[k].id,
                        reconciliation_id |-> Len(records) + 1,
                        match_status |-> t.match_result.match_status,
                        variance_num |-> t.match_result.variance_num,
                        variance_den |-> t.match_result.variance_den,
                        llm_discrepancies |-> Len(t.llm_analysis.discrepancies)])]
    /\ semaphore' = semaphore + 1
    /\ UNCHANGED <<params, item_wise_grn, call, mainPc, invoices, batch_i, results, ret>>

\* (mutant) the records of a batch are written in one transaction, which is
\* rolled back when a record cannot be created
RecordCreateRaisesRollsBack(k) ==
    /\ tasks[k].pc = "create_record"
    /\ Raise(k)
    /\ records' = SubSeq(records, 1,
            Cardinality({j \in DOMAIN tasks :
                /\ tasks[j].pc = "done"
                /\ (j - 1) \div batch_size < (k - 1) \div batch_size}))
    /\ UNCHANGED <<params, item_wise_grn, call, mainPc, invoices, batch_i, stats, results, ret>>

\* InvoiceGrnReconciliation.objects.create raises
RecordCreateRaises(k) ==
    /\ tasks[k].pc = "create_record"
    /\ Raise(k)
    /\ UNCHANGED <<params, item_wise_grn, call, mainPc, invoices, batch_i, stats, results, records, ret>>

\* (mutant) llm.invoke is called on the thread of the event loop: while a call
\* is out only its caller can be resumed
RunnableUnlessCalling ==
    IF \E j \in DOMAIN tasks : tasks[j].pc = "llm_call"
    THEN {j \in DOMAIN tasks : tasks[j].pc = "llm_call"}
    ELSE DOMAIN tasks

\* the coroutines the event loop may resume: the tasks of the batches started
\* so far.  llm.invoke runs in a thread of the default executor and the sleeps
\* are asyncio.sleep, so a task that waits holds neither the loop nor another
\* task
Runnable == DOMAIN tasks

Next ==
    \/ Select
    \/ SelectFails
    \/ StartBatch
    \/ GatherReturns
    \/ Return
    \/ \E k \in Runnable : Acquire(k)
    \/ \E k \in Runnable : FindReturns(k)
    \/ \E k \in Runnable : FindRaises(k)
    \/ \E k \in Runnable : NoMatchCreated(k)
    \/ \E k \in Runnable : NoMatchCreateRaises(k)
    \/ \E k \in Runnable : ItemsReturn(k)
    \/ \E k \in Runnable : ItemsRaise(k)
    \/ \E k \in Runnable : PacingDone(k)
    \/ \E k \in Runnable : \E response \in RunResponses : LlmReturns(k, response)
    \/ \E k \in Runnable : \E e \in LlmErrors : LlmRaises(k, e)
    \/ \E k \in Runnable : BackoffDone(k)
    \/ \E k \in Runnable : RecordCreated(k)
    \/ \E k \in Runnable : RecordCreateRaises(k)

Spec == Init /\ [][Next]_vars

\* the steps of process_batch_async itself
MainStep == Select \/ SelectFails \/ StartBatch \/ GatherReturns \/ Return

\* the steps of the coroutine of the k-th invoice
TaskStep(k) ==
    /\ k \in Runnable
    /\ \/ Acquire(k)
       \/ FindReturns(k)
       \/ FindRaises(k)
       \/ NoMatchCreated(k)
       \/ NoMatchCreateRaises(k)
       \/ ItemsReturn(k)
       \/ ItemsRaise(k)
       \/ PacingDone(k)
       \/ \E response \in RunResponses : LlmReturns(k, response)
       \/ \E e \in LlmErrors : LlmRaises(k, e)
       \/ BackoffDone(k)
       \/ RecordCreated(k)
       \/ RecordCreateRaises(k)

\* the processors whose runs are followed to their end: paced runs over all
\* completed invoices in batches of MaxBatchSize, with and without an LLM,
\* for every limit of the semaphore
FairInit ==
    /\ Init
    /\ delay_seconds = DefaultDelay
    /\ invoice_ids.is_none
    /\ batch_size = MaxBatchSize

\* A run under the scheduling of asyncio: the event loop resumes every
\* coroutine that is ready (process_batch_async and each task), every sleep
\* ends, and every call of the record store and of the inference service
\* returns or raises.
FairSpec ==
    /\ FairInit /\ [][Next]_vars
    /\ WF_vars(MainStep)
    /\ \A k \in 1..Len(InvoiceTable) : WF_vars(TaskStep(k))


\* ------------------------------------------ direct calls of the helpers
\* The matcher, the classifier and the parser called on their own, on a
\* processor that runs no batch: call holds the arguments, and once the
\* method is over (done) what it returned or that it raised.
run == <<mainPc, invoices, batch_i, semaphore, tasks, stats, results, records, ret>>

SeqsUpTo(S, n) == UNION {[1..m -> S] : m \in 0..n}

NoOut == [raised |-> FALSE]

\* InvoiceData rows that differ in po_number and grn_number: None, '', a value
MatcherInvoices ==
    { [id |-> 1, po_number |-> po, grn_number |-> grn, invoice_number |-> "INV1",
       invoice_total_post_gst |-> 100, processing_status |-> "completed"] :
         po \in {None, "", "PO1", "PO2"}, grn \in {None, "", "G1", "G2"} }

\* every ItemWiseGrn table of up to MaxStoreRows rows over two PO numbers and
\* two GRN numbers (both nullable columns)
StoreRows ==
    { [po_no |-> po, grn_no |-> grn, total |-> 10] :
         po \in {None, "PO1", "PO2"}, grn \in {None, "G1", "G2"} }

Stores == SeqsUpTo(StoreRows, MaxStoreRows)

\* invoice totals and GRN line totals around the thresholds of the classifier
ClassifierInvoices ==
    { [id |-> 1, po_number |-> "PO1", grn_number |-> "G1", invoice_number |-> "INV1",
       invoice_total_post_gst |-> total, processing_status |-> "completed"] :
         total \in {NoneNum, 0, 100} }

LineTotals == {NoneNum, 0, 1, 9, 50, 89, 90, 91, 98, 100, 102, 110}

GrnLines == {[po_no |-> "PO1", grn_no |-> "G1", total |-> t] : t \in LineTotals}

FindCalls ==
    { [fn |-> "find_grn_matches", invoice |-> invoice, done |-> FALSE, out |-> NoOut] :
         invoice \in MatcherInvoices }

ComparisonCalls ==
    { [fn |-> "basic_amount_comparison", invoice |-> invoice, grn_items |-> grn_items,
       done |-> FALSE, out |-> NoOut] :
         invoice \in ClassifierInvoices, grn_items \in SeqsUpTo(GrnLines, MaxGrnLines) }

\* Rows of a response table as their cells: five cells, six cells of which
\* the first is padded with spaces, three cells, five cells of which one is
\* empty, five cells of a dash each.
FiveCells == << <<"a">>, <<"b">>, <<"c">>, <<"d">>, <<"e">> >>
PaddedCells == << <<" ", "p", " ">>, <<"q">>, <<"r">>, <<"s">>, <<"t">>, <<"u">> >>
ThreeCells == << <<"a">>, <<"b">>, <<"c">> >>
GapCells == << <<"a">>, <<>>, <<"c">>, <<"d">>, <<"e">> >>
DashCells == << <<"-">>, <<"-">>, <<"-">>, <<"-">>, <<"-">> >>

RowKinds == {FiveCells, PaddedCells, ThreeCells, GapCells, DashCells}

RECURSIVE RowLine(_)
\* the line of a table row: its cells between pipes
RowLine(cells) ==
    IF cells = <<>> THEN <<"|">> ELSE <<"|">> \o Head(cells) \o RowLine(Tail(cells))

\* lines after the table: prose, indented prose, a blank line
IndentedProse == <<" ", "o", "k">>
BlankLine == <<>>
ProseKinds == {Prose, IndentedProse, BlankLine}

\* the response text: header row, maybe a separator row, rows, prose lines
TableText(separator, rows, prose) ==
    Join(<<HeaderRow>> \o (IF separator THEN <<SeparatorRow>> ELSE <<>>)
            \o [i \in DOMAIN rows |-> RowLine(rows[i])] \o prose, "\n")

ParseCalls ==
    { [fn |-> "parse_detailed_llm_response", form |-> "table",
       separator |-> separator, rows |-> rows, prose |-> prose,
       llm_response |-> [is_str |-> TRUE, text |-> TableText(separator, rows, prose)],
       done |-> FALSE, out |-> NoOut] :
         separator \in BOOLEAN, rows \in SeqsUpTo(RowKinds, MaxDataRows),
         prose \in SeqsUpTo(ProseKinds, MaxProseLines) }
    \cup
    { [fn |-> "parse_detailed_llm_response", form |-> "table",
       separator |-> FALSE, rows |-> <<>>,
       prose |-> <<>>, llm_response |-> [is_str |-> FALSE, text |-> <<>>],
       done |-> FALSE, out |-> NoOut] }

\* a line of dashes without a pipe
DashLine == <<"-", "-">>

\* the lines a response is made of, in any order: rows, a separator row,
\* prose, a blank line, a line of dashes
TextLineKinds == {HeaderRow, DataRow, SeparatorRow, Prose, BlankLine, DashLine}

\* the responses of up to MaxTextLines lines
TextCalls ==
    { [fn |-> "parse_detailed_llm_response", form |-> "lines", lines |-> lines,
       llm_response |-> [is_str |-> TRUE, text |-> Join(lines, "\n")],
       done |-> FALSE, out |-> NoOut] :
         lines \in SeqsUpTo(TextLineKinds, MaxTextLines) }

\* InvoiceData rows whose po_number, grn_number and invoice_number are None
\* or a value
RecordInvoices ==
    { [id |-> 1, po_number |-> po, grn_number |-> grn, invoice_number |-> no,
       invoice_total_post_gst |-> 100, processing_status |-> "completed"] :
         po \in {None, "PO1"}, grn \in {None, "G1"}, no \in {None, "INV1"} }

\* a summary of n characters
SummaryOf(n) == [i \in 1..n |-> "x"]

\* one entry of the discrepancies list
OneDiscrepancy ==
    [field |-> <<"a">>, grn_value |-> <<"b">>, invoice_value |-> <<"c">>,
     discrepancy_type |-> <<"d">>, suggestion |-> <<"e">>]

\* what can be passed as llm_analysis: None, the failure dict of the parser,
\* a dict without success that counts discrepancies, and success dicts with
\* no or one discrepancy and a summary that is empty, short, of exactly
\* SummaryLimit characters, or one longer
AnalysisInputs ==
    {NoAnalysis,
     [NoAnalysis EXCEPT !.present = TRUE, !.has_error = TRUE],
     [NoAnalysis EXCEPT !.present = TRUE, !.total_discrepancies = 1,
                        !.discrepancies = <<OneDiscrepancy>>]} \cup
    { [NoAnalysis EXCEPT !.present = TRUE, !.success = TRUE, !.summary = SummaryOf(n),
                         !.discrepancies = d, !.total_discrepancies = Len(d)] :
         n \in {0, 3, SummaryLimit, SummaryLimit + 1},
         d \in {<<>>, <<OneDiscrepancy>>} }

CreateRecordCalls ==
    { [fn |-> "create_reconciliation_record", invoice |-> invoice,
       match_result |-> BasicAmountComparison(invoice,
                            <<[po_no |-> "PO1", grn_no |-> "G1", total |-> 98]>>),
       llm_analysis |-> analysis, done |-> FALSE, out |-> NoOut] :
         invoice \in RecordInvoices, analysis \in AnalysisInputs }

HelperCalls ==
    FindCalls \cup ComparisonCalls \cup ParseCalls \cup TextCalls \cup CreateRecordCalls

\* a fresh processor, the arguments of one call, and for the matcher a store
HelperInit ==
    /\ delay_seconds = DefaultDelay
    /\ max_concurrent = 1
    /\ llm = FALSE
    /\ invoice_ids = [is_none |-> TRUE, ids |-> {}]
    /\ batch_size = 1
    /\ NotStarted
    /\ call \in HelperCalls
    /\ item_wise_grn \in IF call.fn = "find_grn_matches" THEN Stores ELSE {<<>>}

\* await self._find_grn_matches_async(invoice) returns
CallFindGrnMatchesReturns ==
    /\ call.fn = "find_grn_matches" /\ ~call.done
    /\ call' = [call EXCEPT !.done = TRUE,
                            !.out = [raised |-> FALSE, rows |-> FindGrnMatches(call.invoice)]]
    /\ UNCHANGED <<params, run, item_wise_grn>>

\* a query that _find_grn_matches_async awaits raises
CallFindGrnMatchesRaises ==
    /\ call.fn = "find_grn_matches" /\ ~call.done
    /\ MatcherQueries(call.invoice)
    /\ call' = [call EXCEPT !.done = TRUE, !.out = [raised |-> TRUE, rows |-> <<>>]]
    /\ UNCHANGED <<params, run, item_wise_grn>>

\* await self._basic_amount_comparison_async(invoice, grn_items) returns
CallBasicAmountComparison ==
    /\ call.fn = "basic_amount_comparison" /\ ~call.done
    /\ call' = [call EXCEPT !.done = TRUE,
                            !.out = [raised |-> FALSE,
                                     result |-> BasicAmountComparison(call.invoice,
                                                                      call.grn_items)]]
    /\ UNCHANGED <<params, run, item_wise_grn>>

\* self._parse_detailed_llm_response(response) returns
CallParseDetailedLlmResponse ==
    /\ call.fn = "parse_detailed_llm_response" /\ ~call.done
    /\ call' = [call EXCEPT !.done = TRUE,
                            !.out = [raised |-> FALSE,
                                     result |-> ParseDetailedLlmResponse(call.llm_response)]]
    /\ UNCHANGED <<params, run, item_wise_grn>>

\* await self._create_reconciliation_record_async(...) returns: the record
\* is in the store
CallCreateReconciliationRecord ==
    /\ call.fn = "create_reconciliation_record" /\ ~call.done
    /\ LET data == ReconciliationData(call.invoice, call.match_result, call.llm_analysis)
       IN  /\ records' = Append(records, data)
           /\ call' = [call EXCEPT !.done = TRUE,
                                   !.out = [raised |-> FALSE, record |-> data]]
    /\ UNCHANGED <<params, item_wise_grn, mainPc, invoices, batch_i, semaphore, tasks,
                   stats, results, ret>>

\* InvoiceGrnReconciliation.objects.create raises: no record
CallCreateReconciliationRecordRaises ==
    /\ call.fn = "create_reconciliation_record" /\ ~call.done
    /\ call' = [call EXCEPT !.done = TRUE, !.out = [raised |-> TRUE]]
    /\ UNCHANGED <<params, run, item_wise_grn>>

HelperNext ==
    \/ CallFindGrnMatchesReturns
    \/ CallFindGrnMatchesRaises
    \/ CallBasicAmountComparison
    \/ CallParseDetailedLlmResponse
    \/ CallCreateReconciliationRecord
    \/ CallCreateReconciliationRecordRaises

HelperSpec == HelperInit /\ [][HelperNext]_vars


\* ------------------------------------------- run_async_reconciliation again
\* run_async_reconciliation called several times in a row over one record
\* store: call counts the runs started and, for each invoice, the runs that
\* are over in which its task returned.
RunCalls ==
    { [fn |-> "run_async_reconciliation", runs |-> 1,
       finished |-> [id \in InvoiceIds |-> 0]] }

\* the lists of ids given to each run: one invoice each
RerunIdLists == {[is_none |-> FALSE, ids |-> {id}] : id \in InvoiceIds}

\* the first run: paced, one slot, batches of one
RerunInit ==
    /\ delay_seconds = DefaultDelay
    /\ max_concurrent = 1
    /\ batch_size = 1
    /\ llm \in BOOLEAN
    /\ invoice_ids \in RerunIdLists
    /\ NotStarted
    /\ item_wise_grn = GrnTable
    /\ call \in RunCalls

\* the invoices whose task returned in the run that is over
ReturnedIds == {invoices[k].id : k \in {j \in DOMAIN tasks : tasks[j].pc = "done"}}

\* (mutant) the next run is made by the processor of the run before
RunAgainSameProcessor ==
    /\ call.fn = "run_async_reconciliation"
    /\ mainPc = "returned"
    /\ call.runs < MaxRuns
    /\ invoice_ids' \in RerunIdLists
    /\ mainPc' = "select"
    /\ invoices' = <<>> /\ batch_i' = 0 /\ semaphore' = 0 /\ tasks' = <<>>
    /\ results' = <<>> /\ ret' = NotReturned
    /\ call' = [call EXCEPT !.runs = @ + 1,
                            !.finished = [id \in InvoiceIds |->
                                @[id] + IF id \in ReturnedIds THEN 1 ELSE 0]]
    /\ UNCHANGED <<delay_seconds, max_concurrent, llm, batch_size, item_wise_grn, records,
                   stats>>

\* run_async_reconciliation is called once more: a new processor, with its
\* counters at zero, over the record store the runs before have written to
RunAgain ==
    /\ call.fn = "run_async_reconciliation"
    /\ mainPc = "returned"
    /\ call.runs < MaxRuns
    /\ invoice_ids' \in RerunIdLists
    /\ mainPc' = "select"
    /\ invoices' = <<>> /\ batch_i' = 0 /\ semaphore' = 0 /\ tasks' = <<>>
    /\ stats' = ZeroStats
    /\ results' = <<>> /\ ret' = NotReturned
    /\ call' = [call EXCEPT !.runs = @ + 1,
                            !.finished = [id \in InvoiceIds |->
                                @[id] + IF id \in ReturnedIds THEN 1 ELSE 0]]
    /\ UNCHANGED <<delay_seconds, max_concurrent, llm, batch_size, item_wise_grn, records>>

RerunNext == RunAgain \/ Next

RerunSpec == RerunInit /\ [][RerunNext]_vars

\* ------------------------------------------------- AsyncReconciliationAPI
\* A POST parameter as it arrives: a number, the text 'nan', or other text.
Num(n) == [kind |-> "number", val |-> n]
NanText == [kind |-> "nan", val |-> 0]
OtherText == [kind |-> "text", val |-> 0]

\* float(...) of lines 40 and 50: raises ValueError for other text
ParsesAsFloat(raw) == raw.kind \in {"number", "nan"}
FloatOf(raw) == IF raw.kind = "nan" THEN NaN ELSE raw.val

\* int(...) of lines 41-42 and 51-52: raises ValueError for 'nan' and text
ParsesAsInt(raw) == raw.kind = "number"
IntOf(raw) == raw.val

\* requests with each parameter at, just inside and just outside its limits
DelayInputs == {Num(MinDelay - 1), Num(MinDelay), Num(MaxDelay), Num(MaxDelay + 1), NanText}
ConcurrentInputs ==
    {Num(MinConcurrent - 1), Num(MinConcurrent), Num(MaxConcurrent),
     Num(MaxConcurrent + 1), OtherText}
BatchInputs == {Num(MinBatch - 1), Num(MinBatch), Num(MaxBatch), Num(MaxBatch + 1)}

\* the invoice_ids of a request name one invoice
PostIdLists == {[is_none |-> FALSE, ids |-> {id}] : id \in InvoiceIds}

PostCalls ==
    { [fn |-> "post", invoice_ids |-> ids, delay_seconds |-> d, max_concurrent |-> c,
       batch_size |-> b, stage |-> "received", done |-> FALSE,
       out |-> [status |-> 0, error |-> None, has_stats |-> FALSE]] :
         ids \in PostIdLists, d \in DelayInputs, c \in ConcurrentInputs, b \in BatchInputs }

\* a request has arrived; no processor exists yet
ApiInit ==
    /\ delay_seconds = DefaultDelay
    /\ max_concurrent = 1
    /\ batch_size = 1
    /\ invoice_ids = [is_none |-> TRUE, ids |-> {}]
    /\ llm \in BOOLEAN
    /\ mainPc = "request"
    /\ NoRun
    /\ item_wise_grn = GrnTable
    /\ call \in PostCalls

ParamsParse(c) ==
    ParsesAsFloat(c.delay_seconds) /\ ParsesAsInt(c.max_concurrent) /\ ParsesAsInt(c.batch_size)

\* "Validate parameters": the message of the first test that fails, or None
ValidationError(c) ==
    LET d == FloatOf(c.delay_seconds)
        m == IntOf(c.max_concurrent)
        b == IntOf(c.batch_size)
    IN  IF FloatLess(d, MinDelay) \/ FloatGreater(d, MaxDelay)
        THEN "delay_seconds must be between 0 and 10"
        ELSE IF m < MinConcurrent \/ m > MaxConcurrent
        THEN "max_concurrent must be between 1 and 50"
        ELSE IF b < MinBatch \/ b > MaxBatch
        THEN "batch_size must be between 10 and 1000"
        ELSE None

\* float() or int() raises: the except branch of _async_post answers 500
PostParseFails ==
    /\ call.fn = "post" /\ call.stage = "received"
    /\ ~ParamsParse(call)
    /\ call' = [call EXCEPT !.stage = "responded", !.done = TRUE,
                            !.out = [status |-> 500, error |-> "Failed to process reconciliation",
                                     has_stats |-> FALSE]]
    /\ UNCHANGED <<params, run, item_wise_grn>>

\* a validation test fails: 400 with its message
PostRejects ==
    /\ call.fn = "post" /\ call.stage = "received"
    /\ ParamsParse(call)
    /\ ValidationError(call) # None
    /\ call' = [call EXCEPT !.stage = "responded", !.done = TRUE,
                            !.out = [status |-> 400, error |-> ValidationError(call),
                                     has_stats |-> FALSE]]
    /\ UNCHANGED <<params, run, item_wise_grn>>

\* run_async_reconciliation is awaited: a processor is constructed and its
\* process_batch_async is called
PostStarts ==
    /\ call.fn = "post" /\ call.stage = "received"
    /\ ParamsParse(call)
    /\ ValidationError(call) = None
    /\ delay_seconds' = FloatOf(call.delay_seconds)
    /\ max_concurrent' = IntOf(call.max_concurrent)
    /\ batch_size' = IntOf(call.batch_size)
    /\ invoice_ids' = call.invoice_ids
    /\ mainPc' = "select"
    /\ call' = [call EXCEPT !.stage = "running"]
    /\ UNCHANGED <<llm, invoices, batch_i, semaphore, tasks, stats, results, records, ret,
                   item_wise_grn>>

\* the run has returned: 200 with the stats, or 500 with error and stats
PostResponds ==
    /\ call.fn = "post" /\ call.stage = "running"
    /\ mainPc = "returned"
    /\ call' = [call EXCEPT !.stage = "responded", !.done = TRUE,
                            !.out = IF ret.success
                                    THEN [status |-> 200, error |-> None, has_stats |-> TRUE]
                                    ELSE [status |-> 500, error |-> "error of the run",
                                          has_stats |-> TRUE]]
    /\ UNCHANGED <<params, run, item_wise_grn>>

ApiNext ==
    \/ PostParseFails
    \/ PostRejects
    \/ PostStarts
    \/ PostResponds
    \/ Next

ApiSpec == ApiInit /\ [][ApiNext]_vars

\* ================================================================ claims
\* the tasks inside "async with semaphore"
InSection(t) ==
    t.pc \in {"find", "create_no_match", "items", "llm_pacing", "llm_call",
              "llm_backoff", "create_record"}

ActiveCount == Cardinality({k \in DOMAIN tasks : InSection(tasks[k])})

\* the selection step succeeded
RunSelected == mainPc \in {"loop", "gather"} \/ (mainPc = "returned" /\ ret.success)

RunOver == ret.returned /\ ret.success

\* the records that reference an invoice
RecordsOf(id) == {i \in DOMAIN records : records[i].invoice_data = id}

\* the number of the batch a position of invoices belongs to
BatchNo(k) == (k - 1) \div batch_size

DoneTasks == {k \in DOMAIN tasks : tasks[k].pc = "done"}
FailedTasks == {k \in DOMAIN tasks : tasks[k].pc = "failed"}

\* C1: at most max_concurrent tasks are inside the semaphore-guarded section,
\* and the free slots of the one semaphore of the run plus the tasks inside
\* the section always add up to max_concurrent, whatever the batch.
C1_ConcurrencyBound ==
    /\ ActiveCount <= max_concurrent
    /\ RunSelected => semaphore = max_concurrent - ActiveCount

\* a later batch in which the limiter is full and a task is kept waiting
C1_Witness ==
    /\ batch_i > 0
    /\ ActiveCount = max_concurrent
    /\ \E k \in DOMAIN tasks : tasks[k].pc = "waiting"

\* C2: once process_batch_async has returned, total_processed + errors is the
\* number of invoices selected (none when the selection failed).
C2_ProcessedPlusErrors ==
    ret.returned =>
        ret.stats.total_processed + ret.stats.errors =
            IF ret.success THEN Len(SelectInvoices(invoice_ids)) ELSE 0

\* a run of several batches with both failed and processed invoices
C2_Witness ==
    /\ RunOver
    /\ ret.stats.errors > 0
    /\ ret.stats.total_processed > 0
    /\ Len(invoices) > batch_size

\* C3 as claimed: after the run every selected invoice has exactly one
\* record, a no_grn_found record when it has no candidate.
C3_OneRecordPerInvoice ==
    RunOver =>
        \A k \in DOMAIN tasks :
            /\ Cardinality(RecordsOf(invoices[k].id)) = 1
            /\ FindGrnMatches(invoices[k]) = <<>> =>
                  \A i \in RecordsOf(invoices[k].id) :
                      records[i].match_status = "no_grn_found"

\* C3 amended: an invoice whose task returned has exactly one record (a
\* no_grn_found record when it has no candidate); an invoice whose task
\* raised, or has not returned yet, has none.
C3_OneRecordPerReturnedTask ==
    \A k \in DOMAIN tasks :
        /\ Cardinality(RecordsOf(invoices[k].id)) = IF tasks[k].pc = "done" THEN 1 ELSE 0
        /\ FindGrnMatches(invoices[k]) = <<>> =>
              \A i \in RecordsOf(invoices[k].id) :
                  records[i].match_status = "no_grn_found"

\* a finished run with a failed invoice and a no_grn_found record
C3_Witness ==
    /\ RunOver
    /\ FailedTasks # {}
    /\ \E k \in DoneTasks :
          \E i \in RecordsOf(invoices[k].id) : records[i].match_status = "no_grn_found"

\* C4: a task of a later batch exists (has been handed to gather) only when
\* every task of every earlier batch has finished, with a result or an error.
C4_BatchBarrier ==
    \A j, k \in DOMAIN tasks :
        BatchNo(j) < BatchNo(k) /\ tasks[k].pc # "new" => Finished(tasks[j])

\* a task of a later batch is running after an earlier batch with a failure
C4_Witness ==
    \E j, k \in DOMAIN tasks :
        /\ BatchNo(j) < BatchNo(k)
        /\ tasks[j].pc = "failed"
        /\ InSection(tasks[k])

\* C5: a run fails as a whole only when the selection failed; a run whose
\* selection succeeded returns success with every task finished, errors
\* the number of tasks that raised and total_processed the number that returned.
C5_FailureDoesNotAbort ==
    /\ ret.returned /\ ~ret.success => tasks = <<>> /\ invoices = <<>>
    /\ RunOver =>
          /\ \A k \in DOMAIN tasks : Finished(tasks[k])
          /\ ret.stats.errors = Cardinality(FailedTasks)
          /\ ret.stats.total_processed = Cardinality(DoneTasks)
          /\ Len(ret.results) = Cardinality(DoneTasks)

\* a finished run where an invoice failed in the first batch and invoices of
\* the same batch and of a later batch were processed
C5_Witness ==
    /\ RunOver
    /\ \E j, k, l \in DOMAIN tasks :
          /\ j # k /\ BatchNo(j) = BatchNo(k) /\ BatchNo(k) < BatchNo(l)
          /\ tasks[j].pc = "failed" /\ tasks[k].pc = "done" /\ tasks[l].pc = "done"

\* a throttling error: '429', 'retry_delay' and a delay number in the message
ThrottlingError(e) == e.has_429 /\ e.has_retry_delay /\ e.found = "number"

\* the tasks of the inference client's loop
InClient(t) == t.pc \in {"llm_pacing", "llm_call", "llm_backoff"}

\* C6, in every state: a task is in its backoff sleep exactly when the attempt
\* just made failed with a throttling error, and then it sleeps the delay the
\* error carries; every attempt is one call of llm.invoke and there are at
\* most max_retries of them; the client that gave up hands no analysis on.
C6_BackoffState ==
    \A k \in DOMAIN tasks :
        LET t == tasks[k]
        IN  /\ t.calls <= max_retries /\ t.attempt < max_retries
            /\ (t.pc = "llm_backoff") = ThrottlingError(t.last_error)
            /\ t.pc = "llm_backoff" =>
                  t.last_sleep = [ev |-> "backoff", secs |-> t.last_error.retry_delay]
            /\ t.pc \in {"llm_call", "llm_backoff"} => t.calls = t.attempt + 1
            /\ t.pc = "llm_pacing" => t.calls = t.attempt
            /\ t.llm_exit = "max_retries" => t.analysed = "none"

\* C6, in every step: after the backoff sleep of a throttled attempt the
\* client makes the next attempt when fewer than max_retries attempts were
\* made, and otherwise gives up with "Max retries reached" without a call.
C6_BackoffStep ==
    \A k \in DOMAIN tasks :
        (k \in DOMAIN tasks' /\ tasks[k].pc = "llm_backoff" /\ tasks'[k] # tasks[k]) =>
            IF tasks[k].calls < max_retries
            THEN /\ InClient(tasks'[k])
                 /\ tasks'[k].attempt = tasks[k].attempt + 1
                 /\ tasks'[k].llm_exit = "none"
            ELSE /\ tasks'[k].pc = "create_record"
                 /\ tasks'[k].llm_exit = "max_retries"
                 /\ tasks'[k].calls = 0

\* C6: throttled attempts are followed by a sleep of the suggested delay and
\* a retry, up to max_retries attempts, then by a terminal error.
C6_ThrottleBackoff == []C6_BackoffState /\ [][C6_BackoffStep]_vars

\* the client of a task has given up after max_retries throttled attempts
C6_Witness ==
    \E k \in DOMAIN tasks :
        /\ tasks[k].pc = "create_record"
        /\ tasks[k].llm_exit = "max_retries"

\* C7: with a pacing delay configured, whenever llm.invoke is outstanding the
\* latest sleep of the task is the pacing sleep of delay_seconds (not a
\* backoff sleep, and not none), on the first attempt and on every retry.
C7_PacingBeforeCall ==
    \A k \in DOMAIN tasks :
        tasks[k].pc = "llm_call" /\ delay_seconds > 0 =>
            tasks[k].last_sleep = [ev |-> "pace", secs |-> delay_seconds]

\* a retry is outstanding with a pacing delay configured
C7_Witness ==
    \E k \in DOMAIN tasks :
        tasks[k].pc = "llm_call" /\ tasks[k].attempt > 0 /\ delay_seconds > 0

\* an inference failure that is no throttling signal: no '429', or no
\* 'retry_delay', or nothing the pattern finds after it
NotThrottling(e) == e # NoError /\ (~e.has_429 \/ ~e.has_retry_delay \/ e.found = "no_match")

C9_ExhaustionFailsInvoice ==
    RunOver =>
        /\ \A k \in DOMAIN tasks :
              tasks[k].llm_exit = "max_retries" =>
                  /\ tasks[k].pc = "failed"
                  /\ \A i \in DOMAIN ret.results :
                        ret.results[i].invoice_id # invoices[k].id
        /\ (tasks # <<>> /\ \A k \in DOMAIN tasks : tasks[k].llm_exit = "max_retries") =>
              ret.stats.total_processed = 0 /\ ret.stats.errors = Len(invoices)

\* C9 amended: exhausting the retries is recovered inside the analyzer: the
\* task goes on to create its record with no analysis, and once it has
\* returned its result is among the results; when every invoice of a run
\* hits this and returns, total_processed is the number of invoices and
\* errors is 0.
C9_ExhaustionRecovered ==
    /\ \A k \in DOMAIN tasks :
          tasks[k].llm_exit = "max_retries" =>
              /\ tasks[k].pc \in {"create_record", "done"}
              /\ tasks[k].analysed = "none"
    /\ RunOver =>
          /\ \A k \in DOMAIN tasks :
                tasks[k].llm_exit = "max_retries" =>
                    /\ \E i \in DOMAIN ret.results :
                          ret.results[i].invoice_id = invoices[k].id
                    /\ RecordsOf(invoices[k].id) # {}
          /\ (tasks # <<>> /\ \A k \in DOMAIN tasks : tasks[k].llm_exit = "max_retries") =>
                ret.stats.total_processed = Len(invoices) /\ ret.stats.errors = 0

\* a finished run in which every invoice had its retries exhausted
C9_Witness ==
    /\ RunOver
    /\ tasks # <<>>
    /\ \A k \in DOMAIN tasks : tasks[k].llm_exit = "max_retries"

\* the analysis of the task failed: the inference client raised, or the
\* parser returned its failure dict
AnalysisFailed(t) ==
    t.llm_exit \in {"raised", "conversion_error", "max_retries"} \/ t.analysed = "parse_failed"

\* C10: a failed analysis does not fail the task: the task goes on to create
\* its record, with the match result of the classifier; once it has returned,
\* its record carries the match_status of the classifier and its result is
\* among the results that total_processed counts.
C10_AnalysisFailureRecovered ==
    /\ \A k \in DOMAIN tasks :
          AnalysisFailed(tasks[k]) =>
              /\ tasks[k].pc \in {"create_record", "done"}
              /\ tasks[k].llm_exit # "returned" => tasks[k].analysed = "none"
              /\ tasks[k].pc = "create_record" =>
                    tasks[k].match_result =
                        BasicAmountComparison(invoices[k], FindGrnMatches(invoices[k]))
    /\ RunOver =>
          \A k \in DOMAIN tasks :
              AnalysisFailed(tasks[k]) =>
                  /\ \E i \in RecordsOf(invoices[k].id) :
                        records[i].match_status =
                            BasicAmountComparison(invoices[k],
                                                  FindGrnMatches(invoices[k])).match_status
                  /\ \E i \in DOMAIN ret.results :
                        ret.results[i].invoice_id = invoices[k].id
                  /\ Len(ret.results) = ret.stats.total_processed

\* a finished run with an invoice whose response could not be parsed and an
\* invoice whose inference call failed
C10_Witness ==
    /\ RunOver
    /\ \E k \in DoneTasks : tasks[k].analysed = "parse_failed"
    /\ \E k \in DoneTasks : tasks[k].llm_exit = "raised"

\* ------------------------------------------------ the matcher on its own
\* a direct call of the matcher is over
MatcherCalled == call.fn = "find_grn_matches" /\ call.done

\* the rows of the store with the PO number and the GRN number of an invoice
ExactTier(invoice) ==
    {i \in DOMAIN item_wise_grn :
        /\ item_wise_grn[i].po_no = invoice.po_number
        /\ item_wise_grn[i].grn_no = invoice.grn_number}

\* the rows of the store with the PO number of an invoice
PoTier(invoice) ==
    {i \in DOMAIN item_wise_grn : item_wise_grn[i].po_no = invoice.po_number}

\* rows is the store restricted to the positions of S, in the store's order
IsSelection(rows, S) ==
    /\ Len(rows) = Cardinality(S)
    /\ \E f \in [1..Len(rows) -> S] :
          /\ \A i, j \in 1..Len(rows) : i < j => f[i] < f[j]
          /\ \A i \in 1..Len(rows) : rows[i] = item_wise_grn[f[i]]

\* C11: for an invoice whose PO number is None or '', whatever its GRN number
\* and whatever the store holds, the matcher returns the empty list and does
\* not raise.
C11_NoPoNoCandidates ==
    (MatcherCalled /\ ~Truthy(call.invoice.po_number)) =>
        ~call.out.raised /\ call.out.rows = <<>>

\* the matcher was called for an invoice without PO number whose GRN number
\* is the GRN number of a row of the store
C11_Witness ==
    /\ MatcherCalled
    /\ ~Truthy(call.invoice.po_number)
    /\ \E i \in DOMAIN item_wise_grn : item_wise_grn[i].grn_no = call.invoice.grn_number

\* C12: for an invoice with PO number and GRN number, when a row of the store
\* has both, the matcher returns exactly the rows that have both, and none
\* that has the PO number only.
C12_ExactTierOnly ==
    (/\ MatcherCalled /\ ~call.out.raised
     /\ Truthy(call.invoice.po_number) /\ Truthy(call.invoice.grn_number)
     /\ ExactTier(call.invoice) # {}) =>
        /\ IsSelection(call.out.rows, ExactTier(call.invoice))
        /\ \A i \in DOMAIN call.out.rows :
              call.out.rows[i].grn_no = call.invoice.grn_number

\* the matcher returned the exact tier from a store that also holds a row of
\* the same PO number and another GRN number
C12_Witness ==
    /\ MatcherCalled /\ ~call.out.raised
    /\ Truthy(call.invoice.grn_number)
    /\ ExactTier(call.invoice) # {}
    /\ PoTier(call.invoice) # ExactTier(call.invoice)

\* C13: for an invoice with a PO number whose exact tier is empty or does not
\* apply, the matcher returns exactly the rows of that PO number; and every
\* row the matcher ever returns has the PO number of the invoice.
C13_PoTierNoCrossPo ==
    (MatcherCalled /\ ~call.out.raised) =>
        /\ (/\ Truthy(call.invoice.po_number)
            /\ (~Truthy(call.invoice.grn_number) \/ ExactTier(call.invoice) = {})) =>
                IsSelection(call.out.rows, PoTier(call.invoice))
        /\ \A i \in DOMAIN call.out.rows :
              call.out.rows[i].po_no = call.invoice.po_number

\* the matcher fell back to the PO-only tier for an invoice with a GRN number
\* no row has, and found nothing there while the store holds other rows
C13_Witness ==
    /\ MatcherCalled /\ ~call.out.raised
    /\ Truthy(call.invoice.po_number) /\ Truthy(call.invoice.grn_number)
    /\ PoTier(call.invoice) = {}
    /\ item_wise_grn # <<>>
    /\ call.out.rows = <<>>

\* --------------------------------------------- the classifier on its own
\* a direct call of the classifier is over
ClassifierCalled == call.fn = "basic_amount_comparison" /\ call.done

\* the line totals of the call, an absent total counted as zero
LineTotalsOf(grn_items) ==
    [i \in DOMAIN grn_items |->
        IF grn_items[i].total = NoneNum THEN 0 ELSE grn_items[i].total]

RECURSIVE LineSum(_)
LineSum(totals) ==
    IF Len(totals) = 0 THEN 0
    ELSE LineSum(SubSeq(totals, 1, Len(totals) - 1)) + totals[Len(totals)]

\* the status that goes with a variance of num/den percent
StatusOf(num, den) ==
    CASE num <= 2 * den -> "perfect_match"
      [] 2 * den < num /\ num <= 10 * den -> "partial_match"
      [] num > 10 * den -> "amount_mismatch"

\* C14: grn_total is the sum of the line totals (absent ones as zero);
\* variance_pct is |invoice total - grn_total| / invoice total * 100 for a
\* positive invoice total and exactly 100 for a zero or absent one; the status
\* is perfect_match up to 2, partial_match above 2 and up to 10, and
\* amount_mismatch above 10.
C14_Classification ==
    ClassifierCalled =>
        LET r == call.out.result
            total == call.invoice.invoice_total_post_gst
            lines == LineTotalsOf(call.grn_items)
        IN  /\ ~call.out.raised
            /\ r.grn_total = LineSum(lines)
            /\ r.variance_den > 0
            /\ IF total # NoneNum /\ total > 0
               THEN r.variance_num * total =
                       Abs(total - r.grn_total) * 100 * r.variance_den
               ELSE r.variance_num = 100 * r.variance_den
            /\ r.match_status = StatusOf(r.variance_num, r.variance_den)
            /\ (total = 100 /\ lines = <<100>>) => r.match_status = "perfect_match"
            /\ (total = 100 /\ lines = <<91>>) => r.match_status = "partial_match"
            /\ (total = 100 /\ lines = <<50>>) => r.match_status = "amount_mismatch"
            /\ (total = 0 /\ lines = <<>>) => r.match_status = "amount_mismatch"

\* the classifier was called with a line without total and classified a
\* variance of exactly 10 percent
C14_Witness ==
    /\ ClassifierCalled
    /\ \E i \in DOMAIN call.grn_items : call.grn_items[i].total = NoneNum
    /\ call.out.result.variance_num = 10 * call.out.result.variance_den
    /\ call.out.result.match_status = "partial_match"

\* the tasks that hold the result of their classifier call
Classified(t) == t.pc \in {"llm_pacing", "llm_call", "llm_backoff", "create_record"}

\* C15, in every state of a run: the result a task got from the classifier is
\* the result of the classifier for the task's invoice and GRN rows, whatever
\* the counters, the records and the other tasks have become since.
C15_ResultOfInputsOnly ==
    \A k \in DOMAIN tasks :
        Classified(tasks[k]) =>
            tasks[k].match_result = BasicAmountComparison(invoices[k], tasks[k].grn_items)

\* C15, in every step of a run: the step in which a task calls the classifier
\* changes neither the counters nor the records.
C15_NoEffect ==
    \A k \in DOMAIN tasks :
        (k \in DOMAIN tasks' /\ tasks[k].pc = "items" /\ Classified(tasks'[k])) =>
            stats' = stats /\ records' = records

\* C15: the classifier is a pure function of the invoice total and the GRN
\* line totals.
C15_ClassifierPure == []C15_ResultOfInputsOnly /\ [][C15_NoEffect]_vars

\* a task holds its classification while records were written and counters
\* changed after the classifier ran for an earlier task
C15_Witness ==
    \E k \in DOMAIN tasks :
        /\ Classified(tasks[k])
        /\ records # <<>>
        /\ stats.perfect_matches > 0

\* ------------------------------------------------- when the analyzer runs
\* the analyzer was or is being run for the invoice of a task
AnalyzerInvoked(t) ==
    \/ InClient(t)
    \/ t.calls > 0
    \/ t.llm_exit # "none"
    \/ t.analysed # "no"

\* C16: the analyzer, and with it the inference service, is invoked for an
\* invoice only if an inference client is configured and the invoice has
\* between 1 and 20 candidate GRN rows.
C16_AnalyzerGuard ==
    \A k \in DOMAIN tasks :
        AnalyzerInvoked(tasks[k]) =>
            /\ llm
            /\ Len(FindGrnMatches(invoices[k])) >= 1
            /\ Len(FindGrnMatches(invoices[k])) <= 20

\* with a client configured, one invoice was analysed, and the invoices with
\* more than 20 candidates and with no candidate got their record without it
C16_Witness ==
    /\ llm
    /\ \E k \in DOMAIN tasks : tasks[k].analysed = "ok"
    /\ \E k \in DOMAIN tasks :
          /\ tasks[k].pc = "done" /\ tasks[k].analysed = "no"
          /\ Len(FindGrnMatches(invoices[k])) > 20
    /\ \E k \in DOMAIN tasks :
          /\ tasks[k].pc = "done" /\ tasks[k].analysed = "no"
          /\ FindGrnMatches(invoices[k]) = <<>>

\* ------------------------------------------------- the parser on its own
\* a direct call of the parser with a str is over
ParserCalled ==
    /\ call.fn = "parse_detailed_llm_response" /\ call.form = "table"
    /\ call.done /\ call.llm_response.is_str

\* the trimmed cells of a row that are not empty
NonEmptyCells(cells) ==
    SelectSeq([i \in DOMAIN cells |-> Strip(cells[i])], LAMBDA c : c # <<>>)

\* a row of pipes, dashes and spaces only is a separator row, not a data row
IsDashRow(cells) == \A i \in DOMAIN cells : Range(cells[i]) \subseteq {"-", " "}

IsGoodRow(cells) == ~IsDashRow(cells) /\ Len(NonEmptyCells(cells)) >= 5

\* the entry of a row: its first five cells in order
EntryOf(cells) ==
    LET c == NonEmptyCells(cells)
    IN  [field |-> c[1], grn_value |-> c[2], invoice_value |-> c[3],
         discrepancy_type |-> c[4], suggestion |-> c[5]]

\* a header row and n data rows of at least 5 non-empty cells each, then prose
TableThenProse == ParserCalled /\ \A i \in DOMAIN call.rows : IsGoodRow(call.rows[i])

\* the n rows of the table are the n entries, in order
EntriesAreRows ==
    LET r == call.out.result
    IN  /\ ~call.out.raised
        /\ r.success
        /\ Len(r.discrepancies) = Len(call.rows)
        /\ r.total_discrepancies = Len(call.rows)
        /\ \A i \in DOMAIN call.rows : r.discrepancies[i] = EntryOf(call.rows[i])

\* C17 as stated: for a header row, n data rows of at least 5 non-empty cells
\* and prose lines, the parser returns success with the n rows as entries and
\* a summary equal to the prose lines joined by newlines.
C17_SummaryIsJoinedProse ==
    TableThenProse =>
        /\ EntriesAreRows
        /\ call.out.result.summary = Join(call.prose, "\n")

\* C17: for a header row, n data rows of at least 5 non-empty cells and prose
\* lines, the parser returns success with the n rows as entries (the header
\* row discarded) and a summary equal to the prose lines joined by newlines
\* and then trimmed of leading and trailing whitespace.
C17_SummaryIsTrimmedProse ==
    TableThenProse =>
        /\ EntriesAreRows
        /\ call.out.result.summary = Strip(Join(call.prose, "\n"))

\* a table with separator row and two data rows, one of them padded, followed
\* by an indented line and a second line of prose, was parsed
C17_Witness ==
    /\ TableThenProse
    /\ call.separator
    /\ call.rows = <<PaddedCells, FiveCells>>
    /\ call.prose = <<IndentedProse, Prose>>

\* the data rows of a table that yield at least 5 non-empty cells
RECURSIVE GoodRows(_)
GoodRows(rows) ==
    IF rows = <<>> THEN <<>>
    ELSE (IF IsGoodRow(Head(rows)) THEN <<Head(rows)>> ELSE <<>>) \o GoodRows(Tail(rows))

\* C18: a data row that yields fewer than 5 non-empty cells is dropped
\* without an exception: the parser returns success and the entries are those
\* of the other rows of the table, in order.
C18_ShortRowsDropped ==
    ParserCalled =>
        LET r == call.out.result
            good == GoodRows(call.rows)
        IN  /\ ~call.out.raised
            /\ r.success
            /\ Len(r.discrepancies) = Len(good)
            /\ \A i \in DOMAIN good : r.discrepancies[i] = EntryOf(good[i])

\* a table whose first data row has three cells and whose second has five
\* was parsed
C18_Witness ==
    /\ ParserCalled
    /\ call.rows = <<ThreeCells, FiveCells>>
    /\ Len(call.out.result.discrepancies) = 1

\* ------------------------------------------------ a response not parsed
\* C19: when parsing the response throws, the parser hands back a failure
\* dict (success false, an error message, the raw response) and no exception;
\* the task goes on as without analysis: its record has no analyzer notes and
\* no requires_review flag, its result reports no discrepancy, and the run
\* counts the invoice as processed.
C19_ParseFailureIsNoAnalysis ==
    \A k \in DOMAIN tasks :
        LET t == tasks[k]
        IN  /\ t.llm_exit = "returned" => t.analysed \in {"ok", "parse_failed"}
            /\ (t.analysed = "parse_failed" /\ t.pc = "create_record") =>
                  /\ t.llm_analysis.present /\ ~t.llm_analysis.success
                  /\ t.llm_analysis.has_error
                  /\ t.llm_analysis.discrepancies = <<>>
            /\ (t.analysed = "parse_failed" /\ t.pc = "done") =>
                  /\ Cardinality(RecordsOf(invoices[k].id)) = 1
                  /\ \A i \in RecordsOf(invoices[k].id) :
                        /\ records[i].reconciliation_notes = NoNotes
                        /\ ~records[i].requires_review
                  /\ t.result.llm_discrepancies = 0
                  /\ RunOver => \E i \in DOMAIN ret.results :
                                    ret.results[i].invoice_id = invoices[k].id

\* a run is over in which the response for an invoice could not be parsed
C19_Witness ==
    /\ RunOver
    /\ \E k \in DOMAIN tasks : tasks[k].pc = "done" /\ tasks[k].analysed = "parse_failed"

\* ------------------------------------------------- the start-batch request
InRange(x, lo, hi) == x # NaN /\ lo <= x /\ x <= hi

\* the three parameters of the request are numbers, and within their limits
PostParsed == call.fn = "post" /\ ParamsParse(call)

PostInRange ==
    /\ InRange(FloatOf(call.delay_seconds), 0, 10)
    /\ InRange(IntOf(call.max_concurrent), 1, 50)
    /\ InRange(IntOf(call.batch_size), 10, 1000)

\* no work was started: nothing selected, no task, no record, no processor run
NoWorkStarted ==
    /\ mainPc = "request"
    /\ invoices = <<>> /\ tasks = <<>> /\ records = <<>> /\ stats = ZeroStats

\* C20: a request with delay_seconds outside 0..10, max_concurrent outside
\* 1..50 or batch_size outside 10..1000 is answered 400 before any work is
\* started: no invoice is selected, no task launched, no inference call made
\* and no record written; a request with all three within the limits, the
\* limits included, is not rejected.
C20_OutOfRangeRejected ==
    PostParsed =>
        IF PostInRange
        THEN call.done => call.out.status # 400
        ELSE /\ NoWorkStarted
             /\ call.done => call.out.status = 400

\* C21: every answer of the start-batch request, whether the run succeeded or
\* failed, the parameters were rejected or an exception was caught, carries
\* the statistics counters.
C21_EveryResponseHasStats ==
    (call.fn = "post" /\ call.done) => call.out.has_stats

\* ------------------------------------------------------------ the selection
\* the ids of the invoices with status completed
CompletedIds ==
    {InvoiceTable[i].id : i \in {j \in DOMAIN InvoiceTable :
                                    InvoiceTable[j].processing_status = "completed"}}

SelectedIds == {invoices[k].id : k \in DOMAIN invoices}

\* only selected invoices get a task, a record or a result, and each is
\* selected once
OnlySelectedProcessed ==
    /\ Len(invoices) = Cardinality(SelectedIds)
    /\ DOMAIN tasks = DOMAIN invoices
    /\ \A i \in DOMAIN records : records[i].invoice_data \in SelectedIds
    /\ \A i \in DOMAIN results : results[i].invoice_id \in SelectedIds

\* C22 as stated: with a list of ids the run processes exactly the completed
\* invoices whose id is in the list, with no list exactly the completed
\* invoices.
C22_SelectionByList ==
    RunSelected =>
        /\ SelectedIds = IF invoice_ids.is_none THEN CompletedIds
                         ELSE CompletedIds \cap invoice_ids.ids
        /\ OnlySelectedProcessed

\* C22: with a list of ids that is not empty the run processes exactly the
\* completed invoices whose id is in the list; with no list, and with the
\* empty list, exactly the completed invoices.
C22_SelectionByNonEmptyList ==
    RunSelected =>
        /\ SelectedIds = IF invoice_ids.is_none \/ invoice_ids.ids = {} THEN CompletedIds
                         ELSE CompletedIds \cap invoice_ids.ids
        /\ OnlySelectedProcessed

\* a run for the list of an invoice that is not completed is over and has
\* processed nothing
C22_Witness ==
    /\ RunOver
    /\ ~invoice_ids.is_none
    /\ invoice_ids.ids # {}
    /\ invoice_ids.ids \cap CompletedIds = {}
    /\ records = <<>>

\* C23: when the selection step fails, process_batch_async returns a failure
\* result (success false, an error, the counters all zero) instead of raising,
\* and no task was started and no record written.
C23_SelectionFailure ==
    /\ mainPc = "returned" => ret.returned
    /\ (ret.returned /\ ~ret.success) =>
          /\ ret.has_error
          /\ ret.stats = ZeroStats
          /\ ret.total_processed = 0
          /\ invoices = <<>> /\ tasks = <<>> /\ records = <<>> /\ results = <<>>

\* the selection step has failed
C23_Witness == mainPc = "returned" /\ ret.returned /\ ~ret.success

\* ---------------------------------------------------------- termination
\* process_batch_async has returned, every selected invoice got a task and
\* every task is over
RunDone ==
    /\ mainPc = "returned"
    /\ ret.returned
    /\ ret.success => DOMAIN tasks = DOMAIN invoices
    /\ \A k \in DOMAIN tasks : Finished(tasks[k])

\* a failure result is only ever produced by the selection step
FailureOnlyFromSelection ==
    (~ret.returned /\ ret'.returned /\ ~ret'.success) => mainPc = "select"

\* C24: every run terminates: every task gets a slot of the limiter and
\* finishes, every batch completes and process_batch_async returns a result;
\* the result is a failure only when the selection step failed, never because
\* invoices failed.
C24_RunTerminates ==
    /\ <>RunDone
    /\ [](ret.returned /\ FailedTasks # {} => ret.success)
    /\ [][FailureOnlyFromSelection]_vars

\* a run in several batches, with fewer slots than tasks in a batch, is over
\* and one of its invoices failed
C24_Witness ==
    /\ RunOver
    /\ RunDone
    /\ FailedTasks # {}
    /\ Len(invoices) > batch_size
    /\ max_concurrent < batch_size

\* ------------------------------------------------------------- the pacing
\* the tasks inside their pacing sleep: each of them calls the inference
\* service when its sleep of delay_seconds ends, so all these calls start
\* within the delay_seconds that follow
PacingTasks == {k \in DOMAIN tasks : tasks[k].pc = "llm_pacing"}

\* C25: the pacing delay bounds the calls of the inference service that all
\* tasks of the run start within one delay by a constant that does not grow
\* with max_concurrent: never more tasks are in their pacing sleep at once
\* than in a run with one slot.
C25_PacingBoundsAggregateRate ==
    FloatGreater(delay_seconds, 0) => Cardinality(PacingTasks) <= 1

\* ---------------------------------------------------------- the counters
\* what the outcomes of the invoices add up to, whatever the order the tasks
\* ran in: a returned task counts by its result and by the analysis it got, a
\* failed one as an error; no_matches also counts the invoice without
\* candidates whose record could not be created (of the invoices here those
\* without candidates have no PO number, so their matcher cannot fail)
StatsOfOutcomes ==
    [total_processed |-> Cardinality(DoneTasks),
     perfect_matches |->
        Cardinality({k \in DoneTasks : tasks[k].result.match_status = "perfect_match"}),
     partial_matches |->
        Cardinality({k \in DoneTasks : tasks[k].result.match_status = "partial_match"}),
     llm_matches |->
        Cardinality({k \in DoneTasks : tasks[k].analysed \in {"ok", "parse_failed"}}),
     no_matches |->
        Cardinality({k \in DoneTasks \cup FailedTasks :
                        /\ FindGrnMatches(invoices[k]) = <<>>
                        /\ k \in FailedTasks => ~MatcherQueries(invoices[k])}),
     errors |-> Cardinality(FailedTasks)]

\* C26: the six counters a run ends with are the sums of the outcomes of its
\* invoices, the same for every interleaving of the tasks of a batch.
C26_StatsOrderIndependent ==
    RunOver => stats = StatsOfOutcomes /\ ret.stats = StatsOfOutcomes

\* a run with two slots and batches of two is over with returned tasks, a
\* failed one, an analysed invoice and one without candidates
C26_Witness ==
    /\ RunOver
    /\ max_concurrent >= 2 /\ batch_size >= 2
    /\ Cardinality(DoneTasks) >= 2
    /\ FailedTasks # {}
    /\ stats.llm_matches >= 1
    /\ stats.no_matches >= 1

\* ------------------------------------------------- progress of the others
\* C27: while a task waits for the inference service, or sleeps its pacing or
\* backoff delay, every other task that holds a slot can take its next step
\* (and so, step by step, complete while the first still waits).
C27_OthersProgress ==
    \A k \in DOMAIN tasks : \A j \in DOMAIN tasks :
        (k # j /\ InClient(tasks[k]) /\ InSection(tasks[j])) => ENABLED TaskStep(j)

\* a task waits for llm.invoke while another task of its batch, holding a
\* slot too, is about to write its record
C27_Witness ==
    \E k \in DOMAIN tasks : \E j \in DOMAIN tasks :
        /\ k # j
        /\ BatchNo(k) = BatchNo(j)
        /\ tasks[k].pc = "llm_call"
        /\ tasks[j].pc \in {"create_record", "create_no_match"}

\* ------------------------------------------------------------ the records
\* the record a returned task has written is in the store, under the id the
\* task reported, and references the invoice of the task
RecordsOfDoneTasksPresent ==
    \A k \in DoneTasks :
        /\ tasks[k].result.reconciliation_id \in DOMAIN records
        /\ records[tasks[k].result.reconciliation_id].invoice_data = invoices[k].id

\* no step changes or removes a record that exists
RecordsKept ==
    /\ Len(records') >= Len(records)
    /\ \A i \in DOMAIN records : records'[i] = records[i]

\* C28: the records are append-only: no step of a run updates or deletes a
\* record, so whatever task fails, the records written before by the tasks of
\* its batch and of earlier batches are there unchanged when the run ends.
C28_RecordsAppendOnly ==
    []RecordsOfDoneTasksPresent /\ [][RecordsKept]_vars

\* a run is over in which a task failed, another task of its batch returned
\* and a task of an earlier batch returned
C28_Witness ==
    /\ RunOver
    /\ \E k \in FailedTasks :
          /\ \E j \in DoneTasks : BatchNo(j) = BatchNo(k)
          /\ \E j \in DoneTasks : BatchNo(j) < BatchNo(k)

\* _create_reconciliation_record_async has returned
RecordCalled ==
    call.fn = "create_reconciliation_record" /\ call.done /\ ~call.out.raised

\* C29: requires_review is written as true exactly when the analysis is a
\* success dict that counts more than zero discrepancies; the analyzer notes
\* are written exactly when the analysis is a success dict, and they are the
\* count of the discrepancies and the first SummaryLimit characters of the
\* summary.
C29_ReviewAndNotes ==
    RecordCalled =>
        LET a == call.llm_analysis
            r == call.out.record
            ok == a.present /\ a.success
            notes == r.reconciliation_notes
        IN  /\ records = <<r>>
            /\ r.requires_review <=> (ok /\ a.total_discrepancies > 0)
            /\ (notes # NoNotes) <=> ok
            /\ ok => /\ notes.text = "LLM Analysis"
                     /\ notes.count = a.total_discrepancies
                     /\ Len(notes.summary) = Min(SummaryLimit, Len(a.summary))
                     /\ \A i \in DOMAIN notes.summary : notes.summary[i] = a.summary[i]

\* a record was created for a success dict with a discrepancy and a summary
\* longer than SummaryLimit
C29_Witness ==
    /\ RecordCalled
    /\ call.llm_analysis.success
    /\ call.llm_analysis.total_discrepancies > 0
    /\ Len(call.llm_analysis.summary) > SummaryLimit
    /\ call.out.record.requires_review

\* the invoice row a record references
InvoiceOf(record) ==
    InvoiceTable[CHOOSE i \in DOMAIN InvoiceTable : InvoiceTable[i].id = record.invoice_data]

\* C30: every record of a run, a no_grn_found record too, carries the PO
\* number, the GRN number and the invoice number of its invoice, an absent
\* one as the empty string.
C30_RecordCarriesNumbers ==
    \A i \in DOMAIN records :
        /\ records[i].po_number = OrEmpty(InvoiceOf(records[i]).po_number)
        /\ records[i].grn_number = OrEmpty(InvoiceOf(records[i]).grn_number)
        /\ records[i].invoice_number = OrEmpty(InvoiceOf(records[i]).invoice_number)

\* ------------------------------------------------------ the match status
MatchStatuses == {"perfect_match", "partial_match", "amount_mismatch", "no_grn_found"}

\* the steps of a task after a non-empty candidate set
PastMatcher == {"items", "llm_pacing", "llm_call", "llm_backoff", "create_record"}

\* C31: the match_status of every record is one of the four; it is
\* no_grn_found exactly when the matcher found no candidate for the invoice,
\* and then total_grn_line_items is 0 and neither the classifier nor the
\* analyzer ran; otherwise total_grn_line_items is the number of candidates.
C31_MatchStatus ==
    /\ \A i \in DOMAIN records :
          LET r == records[i]
              grn_items == FindGrnMatches(InvoiceOf(r))
          IN  /\ r.match_status \in MatchStatuses
              /\ r.match_status = "no_grn_found" <=> grn_items = <<>>
              /\ r.total_grn_line_items = Len(grn_items)
              /\ grn_items = <<>> => r.invoice_total = NoneNum /\ r.grn_total = NoneNum
              /\ grn_items # <<>> =>
                    r.match_status = BasicAmountComparison(InvoiceOf(r), grn_items).match_status
    /\ \A k \in DOMAIN tasks :
          LET t == tasks[k]
          IN  /\ t.pc \in PastMatcher => FindGrnMatches(invoices[k]) # <<>>
              /\ (t.pc = "create_no_match"
                    \/ (t.pc = "done" /\ t.result.match_status = "no_grn_found")) =>
                    /\ FindGrnMatches(invoices[k]) = <<>>
                    /\ t.match_result = NoMatchResult
                    /\ t.llm_analysis = NoAnalysis
                    /\ t.analysed = "no" /\ t.llm_exit = "none" /\ t.calls = 0

\* a run is over that wrote a record of each of the four statuses
C31_Witness ==
    /\ RunOver
    /\ \A status \in MatchStatuses :
          \E i \in DOMAIN records : records[i].match_status = status

\* --------------------------------------------- the regions of a response
\* a direct call of the parser with a text given by its lines is over
TextParsed ==
    call.fn = "parse_detailed_llm_response" /\ call.form = "lines" /\ call.done

IsBlank(line) == Range(line) \subseteq {" "}

OnlySeparators(line) == Range(line) \subseteq {"|", "-", " "}

\* a line of the table: it has a pipe and not only pipes, dashes and spaces
IsRow(line) == "|" \in Range(line) /\ ~OnlySeparators(line)

\* the line i ends the table: it has no pipe, is not blank, and a row came
\* before it
EndsTable(lines, i) ==
    /\ "|" \notin Range(lines[i])
    /\ ~IsBlank(lines[i])
    /\ \E j \in 1..(i - 1) : IsRow(lines[j])

\* the first line that ends the table, Len(lines) + 1 when none does
TableEnd(lines) ==
    IF \E i \in DOMAIN lines : EndsTable(lines, i)
    THEN CHOOSE i \in DOMAIN lines :
            EndsTable(lines, i) /\ \A j \in 1..(i - 1) : ~EndsTable(lines, j)
    ELSE Len(lines) + 1

\* the rows before the end of the table
RowsOf(lines) == SelectSeq(SubSeq(lines, 1, TableEnd(lines) - 1), IsRow)

\* the entry of a row line of five one-character cells
EntryOfLine(line) ==
    [field |-> <<line[2]>>, grn_value |-> <<line[4]>>, invoice_value |-> <<line[6]>>,
     discrepancy_type |-> <<line[8]>>, suggestion |-> <<line[10]>>]

\* C32: the table ends at the first line without a pipe that is not blank
\* and comes after a row: the rows are the lines before it that have a pipe
\* and not only pipes, dashes and spaces (blank lines between them do not end
\* the table), and that line and all lines after it, those with a pipe too,
\* are the summary.
C32_TableRegion ==
    TextParsed =>
        LET r == call.out.result
            rows == RowsOf(call.lines)
            end == TableEnd(call.lines)
        IN  /\ ~call.out.raised
            /\ r.success
            /\ Len(r.discrepancies) = IF rows = <<>> THEN 0 ELSE Len(rows) - 1
            /\ \A i \in DOMAIN r.discrepancies : r.discrepancies[i] = EntryOfLine(rows[i + 1])
            /\ r.summary = Strip(Join(SubSeq(call.lines, end, Len(call.lines)), "\n"))

\* a header row and maybe more of the table, then prose and after it a line
\* with pipes were parsed: the last two lines are the summary
C32_Witness ==
    /\ TextParsed
    /\ \E n \in 1..Len(call.lines) :
          /\ SubSeq(call.lines, n, Len(call.lines)) = <<Prose, DataRow>>
          /\ \E j \in 1..(n - 1) : IsRow(call.lines[j])
    /\ Len(call.out.result.discrepancies) <= 1
    /\ call.out.result.summary = Join(<<Prose, DataRow>>, "\n")

\* the first row of a text, Len(lines) + 1 when it has none
FirstRow(lines) ==
    IF \E i \in DOMAIN lines : IsRow(lines[i])
    THEN CHOOSE i \in DOMAIN lines : IsRow(lines[i]) /\ \A j \in 1..(i - 1) : ~IsRow(lines[j])
    ELSE Len(lines) + 1

\* what the parser makes of the text from its first row on
ParsedFromFirstRow(lines) ==
    ParseDetailedLlmResponse(
        [is_str |-> TRUE,
         text |-> Join(SubSeq(lines, FirstRow(lines), Len(lines)), "\n")])

\* C40: the lines before the first table row are discarded: the entries and
\* the summary are those of the text that starts at its first row; a text
\* without a table row gives success with no entry and an empty summary,
\* whatever prose it has.
C40_PreambleDiscarded ==
    TextParsed =>
        LET r == call.out.result
            from_row == ParsedFromFirstRow(call.lines)
        IN  /\ ~call.out.raised
            /\ r.success
            /\ r.discrepancies = from_row.discrepancies
            /\ r.total_discrepancies = from_row.total_discrepancies
            /\ r.summary = from_row.summary
            /\ FirstRow(call.lines) > Len(call.lines) =>
                  /\ r.discrepancies = <<>>
                  /\ r.total_discrepancies = 0
                  /\ r.summary = <<>>

\* a text of two lines of prose and no row was parsed
C40_Witness ==
    /\ TextParsed
    /\ call.lines = <<Prose, Prose>>
    /\ call.out.result.success
    /\ call.out.result.summary = <<>>

\* ------------------------------------------------------- run after run
CounterNames ==
    {"total_processed", "perfect_matches", "partial_matches", "llm_matches",
     "no_matches", "errors"}

\* no counter goes down within a run
CountersGrow ==
    call'.runs = call.runs => \A c \in CounterNames : stats'[c] >= stats[c]

\* a run that has not selected its invoices yet has all counters at zero
RunStartsAtZero == mainPc = "select" => stats = ZeroStats

\* C33: within a run no step decrements or resets a counter, and every run
\* started through run_async_reconciliation begins with all counters at zero,
\* whatever the runs before it counted.
C33_CountersMonotonic ==
    []RunStartsAtZero /\ [][CountersGrow]_vars

\* a second run is about to select its invoices after a run that wrote a
\* record
C33_Witness ==
    /\ call.fn = "run_async_reconciliation"
    /\ call.runs = 2
    /\ mainPc = "select"
    /\ records # <<>>
    /\ \E id \in InvoiceIds : call.finished[id] = 1

\* ------------------------------------------- counters and what was written
RecordsWithStatus(status) == {i \in DOMAIN records : records[i].match_status = status}

\* C34: after a run each status counter is the number of records of that
\* status the run wrote (perfect_matches, partial_matches, no_matches), so
\* the three together are at most total_processed.
C34_CountersMatchRecords ==
    RunOver =>
        /\ stats.perfect_matches = Cardinality(RecordsWithStatus("perfect_match"))
        /\ stats.partial_matches = Cardinality(RecordsWithStatus("partial_match"))
        /\ stats.no_matches = Cardinality(RecordsWithStatus("no_grn_found"))
        /\ stats.perfect_matches + stats.partial_matches + stats.no_matches
              <= stats.total_processed

\* the records that carry notes of the analyzer
RecordsWithAnalyzerNotes ==
    {i \in DOMAIN records : records[i].reconciliation_notes.text = "LLM Analysis"}

\* C35: llm_matches counts the invoices for which an analysis was available:
\* after a run it is the number of records written with notes of the
\* analyzer; a parse failure and a failed inference call do not count.
C35_LlmMatchesAreAnalyses ==
    RunOver => stats.llm_matches = Cardinality(RecordsWithAnalyzerNotes)

\* ------------------------------------------------------ the results list
\* the positions of the returned tasks, in the order of invoices
ReturnedInOrder ==
    SelectSeq([k \in 1..Len(tasks) |-> k], LAMBDA k : tasks[k].pc = "done")

\* C36: the results list of a successful run has one entry for each invoice
\* whose task returned, none for a failed one, as many as total_processed,
\* in the order of the selection whatever order the tasks finished in.
C36_ResultsInSelectionOrder ==
    RunOver =>
        /\ Len(ret.results) = Len(ReturnedInOrder)
        /\ Len(ret.results) = ret.total_processed
        /\ ret.total_processed = ret.stats.total_processed
        /\ \A i \in DOMAIN ret.results :
              /\ ret.results[i] = tasks[ReturnedInOrder[i]].result
              /\ ret.results[i].invoice_id = invoices[ReturnedInOrder[i]].id

\* a run is over in which a task failed and, in one batch, the task of a
\* later invoice wrote its record before the task of an earlier one
C36_Witness ==
    /\ RunOver
    /\ FailedTasks # {}
    /\ \E j \in DoneTasks : \E k \in DoneTasks :
          /\ j < k
          /\ BatchNo(j) = BatchNo(k)
          /\ tasks[j].result.reconciliation_id > tasks[k].result.reconciliation_id

\* -------------------------------------------------- calls of the service
\* the tasks whose call of llm.invoke is out
OutstandingCalls == {k \in DOMAIN tasks : tasks[k].pc = "llm_call"}

\* in every state: a task has made at most max_retries calls, all of them
\* inside the inference client, and the calls that are out belong to tasks
\* that hold a slot each
CallsBounded ==
    /\ \A k \in DOMAIN tasks :
          /\ tasks[k].calls <= max_retries
          /\ tasks[k].calls > 0 => InClient(tasks[k])
          /\ tasks[k].pc = "llm_call" => tasks[k].calls = tasks[k].attempt + 1
    /\ Cardinality(OutstandingCalls) <= max_concurrent - semaphore
    /\ Cardinality(OutstandingCalls) <= max_concurrent

\* a task enters the inference client once, from the classifier
OneAnalyzerCall ==
    \A k \in DOMAIN tasks :
        (k \in DOMAIN tasks' /\ InClient(tasks'[k]) /\ ~InClient(tasks[k])) =>
            tasks[k].pc = "items" /\ tasks[k].calls = 0

\* C37: for each invoice the inference service is called at most max_retries
\* times, in one invocation of the analyzer, and every call is made while the
\* task holds a slot, so at most max_concurrent calls are out at any moment.
C37_InferenceCallsBounded ==
    []CallsBounded /\ [][OneAnalyzerCall]_vars

\* two tasks have a call out at once, one of them its last
C37_Witness ==
    \E j \in OutstandingCalls : \E k \in OutstandingCalls :
        /\ j # k
        /\ tasks[j].calls = max_retries
        /\ semaphore = 0

\* ---------------------------------------------------------- the empty list
EmptyListGiven == ~invoice_ids.is_none /\ invoice_ids.ids = {}

\* C38: a run given the empty list of ids selects what a run given no list
\* selects: every completed invoice gets a task and is processed, not none.
C38_EmptyListSelectsAll ==
    (EmptyListGiven /\ RunSelected) =>
        /\ invoices = SelectInvoices([is_none |-> TRUE, ids |-> {}])
        /\ SelectedIds = CompletedIds
        /\ invoices # <<>>
        /\ RunOver => \A id \in CompletedIds :
                          \E k \in DOMAIN tasks : invoices[k].id = id /\ Finished(tasks[k])

\* a run given the empty list is over and every completed invoice has its
\* record
C38_Witness ==
    /\ EmptyListGiven
    /\ RunOver
    /\ \A id \in CompletedIds : RecordsOf(id) # {}

\* ------------------------------------------------- records of several runs
\* C39: a run does not look at the records that exist: for every invoice the
\* records that reference it are as many as the runs in which its task
\* returned, so k such runs leave k records.
C39_RecordPerRun ==
    call.fn = "run_async_reconciliation" =>
        \A id \in InvoiceIds :
            Cardinality(RecordsOf(id)) =
                call.finished[id] + (IF id \in ReturnedIds THEN 1 ELSE 0)

\* the second run over one invoice is over and the invoice has two records
C39_Witness ==
    /\ call.fn = "run_async_reconciliation"
    /\ call.runs = 2
    /\ RunOver
    /\ \E id \in InvoiceIds : Cardinality(RecordsOf(id)) = 2 /\ call.finished[id] = 1

====
